---- MODULE Spec2Model ----
(***************************************************************************)
(* A model of the AIGMos command core: the dispatcher (Core.execute with   *)
(* its expansion loop and dispatch gate), the routines store and the       *)
(* surface primitives that edit it, the background Runner (job records,    *)
(* worker threads, pulses, routine locks) and the Event bus (bindings,     *)
(* latch, polling thread).  The texts and tables stores, cp and mv, and    *)
(* import.many are modelled with them.  Beside the whole system (Spec)     *)
(* there are specifications of the parts: the copy and move lines          *)
(* (SpecCp, SpecMv), Core.execute on a configured pass bound (SpecExec),   *)
(* one run of the expansion loop (SpecExpand) and the resolution of        *)
(* trigger symbols (SpecTrg, SpecTableTrg).                                *)
(*                                                                         *)
(* Threads: the caller of Core.execute (the REPL), one worker per started  *)
(* runner job, and the event poller.  A handler runs under exec_lock; the  *)
(* statements a worker or the poller runs outside Core.execute (status and *)
(* trigger writes, the purge, the latch) interleave with it freely.        *)
(*                                                                         *)
(* A command line is a sequence of tokens; a token is a record             *)
(*   [pfx, body, sfx] : pfx is the leading "%", "$", "#", "&" or "",       *)
(*   body the ":"-separated segments, sfx ".trg" or "".                    *)
(* So str.startswith("%") is pfx = "%", str.endswith(".trg") is            *)
(* sfx = ".trg", and str.split(":") is body.                               *)
(***************************************************************************)
EXTENDS Integers, Sequences, FiniteSets, TLC

VARIABLES
    routines,      \* core.l["routines"] : name -> list of steps
    texts,         \* core.kvl["texts"]  : sub -> key -> scalar
    tables,        \* core.tables["tables"] : the tree, path -> node
    expand_max_passes, \* core.expand_max_passes, as init_core leaves it
    xp,            \* one run of Core._expand over a list of expanders
    runners,       \* core.runners       : name -> job (an index of jobs)
    jobs,          \* every RunnerJob object created so far
    wk,            \* the worker thread of each job: position and locals
    runner_locks,  \* core.runner_locks  : routine -> {runner, state}
    events,        \* core.events        : list of bindings
    event_latch,   \* core.event_latch   : symbol -> {armed}
    event_thread,  \* core._event_thread is alive
    poll,          \* the poller thread: position and locals
    exec_lock,     \* owner of core.exec_lock
    repl,          \* the calling thread: position inside a handler
    ret,           \* the entry of the calling thread's last call and its result
    hist           \* history: what was executed, observed and fired

vars == <<routines, texts, tables, expand_max_passes, xp, runners, jobs, wk,
          runner_locks, events, event_latch, event_thread, poll, exec_lock,
          repl, ret, hist>>

(***************************************************************************)
(* Bounds of the model.                                                    *)
(***************************************************************************)
MaxJobs == 2        \* RunnerJob objects created in one behaviour
MaxSteps == 2       \* steps a routine may hold
MaxBindings == 1    \* successful ON calls in one behaviour
MaxCalls == 4       \* calls the calling thread makes in one behaviour

RunnerNames == {"a"}
RoutineNames == {"r"}

(***************************************************************************)
(* Tokens.                                                                 *)
(***************************************************************************)
Tok(p, b, s) == [pfx |-> p, body |-> b, sfx |-> s]
W(s) == Tok("", <<s>>, "")
Amp(n) == Tok("&", <<n>>, "")
Pct(n) == Tok("%", <<n>>, "")
PctTrg(n) == Tok("%", <<n>>, ".trg")

\* str(n) for the integers the model meets
IntStr(n) ==
    CASE n = 0 -> "0" [] n = 1 -> "1" [] n = 2 -> "2" [] n = 3 -> "3"
      [] n = 4 -> "4" [] n = -1 -> "-1" [] OTHER -> "?"

IntRange == -1 .. 4

Num(n) == W(IntStr(n))

\* a token that is the text of an integer
IsIntTok(t) ==
    /\ t.pfx = "" /\ t.sfx = "" /\ Len(t.body) = 1
    /\ \E n \in IntRange : t.body[1] = IntStr(n)

_parse_int(t) ==
    IF IsIntTok(t) THEN CHOOSE n \in IntRange : t.body[1] = IntStr(n) ELSE 0

_is_trg_symbol(sym) == sym.sfx = ".trg"

\* exact match alone: the pattern "*.trg" names no symbol
_match_exact(sym, pat) == sym = pat

_match_pattern(sym, pat) ==
    IF pat = Tok("", <<"*">>, ".trg") THEN sym.sfx = ".trg" ELSE sym = pat

(***************************************************************************)
(* Alias table and expanders.                                              *)
(***************************************************************************)
ALIASES ==
    ("mk" :> "sys.mk") @@ ("rm" :> "sys.rm") @@ ("ls" :> "sys.ls") @@
    ("add.item" :> "sys.add.item") @@ ("cat" :> "sys.cat") @@
    ("cp" :> "sys.cp") @@ ("mv" :> "sys.mv") @@
    ("import.file" :> "sys.io.import.file") @@
    ("import.many" :> "sys.io.import.many") @@
    ("export.file" :> "sys.io.export.file") @@
    ("export.many" :> "sys.io.export.many") @@
    ("run" :> "sys.run") @@ ("status" :> "sys.status") @@
    ("pause" :> "sys.pause") @@ ("stop" :> "sys.stop") @@
    ("ON" :> "sys.ev.on") @@ ("ON.show" :> "sys.ev.show") @@
    ("ON.reset" :> "sys.ev.reset") @@ ("Q" :> "sys.q.chat")

IsWord(t) == t.pfx = "" /\ t.sfx = "" /\ Len(t.body) = 1

has_alias(t) == IsWord(t) /\ t.body[1] \in DOMAIN ALIASES

alias_expand(parts) ==
    IF parts = <<>> THEN parts
    ELSE IF ~has_alias(parts[1]) THEN parts
    ELSE <<W(ALIASES[parts[1].body[1]])>> \o Tail(parts)

\* a registry that holds no job under any name
TrgOfNone(name) == 0

\* job.trg of the job registered under a name, 0 if none
TrgOf(name) ==
    IF name \in DOMAIN runners THEN jobs[runners[name]].trg ELSE 0

IsRunnerTrg(p) == p.pfx = "%" /\ p.sfx = ".trg"

expand_runner_trg(parts) ==
    [k \in 1 .. Len(parts) |->
        IF IsRunnerTrg(parts[k])
        THEN Num(IF Len(parts[k].body) = 1 THEN TrgOf(parts[k].body[1]) ELSE 0)
        ELSE parts[k]]

RECURSIVE Join(_)
\* ":".join(segments)
Join(segs) ==
    IF segs = <<>> THEN ""
    ELSE IF Len(segs) = 1 THEN segs[1]
    ELSE segs[1] \o ":" \o Join(Tail(segs))

\* the text of a token after its one-character prefix
BodyStr(t) == Join(t.body) \o t.sfx

\* a text leaf: the key is everything after the first ":" (suffix included)
KeyOf(p) == Join(Tail(p.body)) \o p.sfx

IsTextTrg(p) == p.pfx = "$" /\ Len(p.body) > 1 /\ p.sfx = ".trg"

TextTrgValue(p) ==
    IF p.body[1] \in DOMAIN texts /\ KeyOf(p) \in DOMAIN texts[p.body[1]]
    THEN LET v == texts[p.body[1]][KeyOf(p)]
         IN IF Len(v) = 1 /\ Len(v[1]) = 1 THEN _parse_int(v[1][1]) ELSE 0
    ELSE 0

expand_text_trg(parts) ==
    [k \in 1 .. Len(parts) |->
        IF IsTextTrg(parts[k]) THEN Num(TextTrgValue(parts[k])) ELSE parts[k]]

\* tbl.ROOT does not exist in system/lib/tables.py: the lookup raises inside
\* the try block and the except branch sets v = 0
IsTableTrg(p) == p.pfx = "#" /\ p.sfx = ".trg"

expand_table_trg(parts) ==
    [k \in 1 .. Len(parts) |->
        IF IsTableTrg(parts[k]) THEN Num(0) ELSE parts[k]]

\* self.expand_max_passes = 10: the default, which config/core.json overrides
DEFAULT_MAX_PASSES == 10

\* one pass of the loop: the first expander (registration order) that changes
\* the sequence wins
ExpandPass(parts) ==
    IF alias_expand(parts) # parts THEN alias_expand(parts)
    ELSE IF expand_runner_trg(parts) # parts THEN expand_runner_trg(parts)
    ELSE IF expand_text_trg(parts) # parts THEN expand_text_trg(parts)
    ELSE IF expand_table_trg(parts) # parts THEN expand_table_trg(parts)
    ELSE parts

RECURSIVE ExpandLoop(_, _, _)
ExpandLoop(parts, pass, seen) ==
    IF pass >= expand_max_passes
    THEN [err |-> "Expansion depth exceeded", parts |-> parts]
    ELSE IF parts \in seen
    THEN [err |-> "Expansion loop detected", parts |-> parts]
    ELSE IF ExpandPass(parts) = parts
    THEN [err |-> "", parts |-> parts]
    ELSE ExpandLoop(ExpandPass(parts), pass + 1, seen \cup {parts})

_expand(parts) == ExpandLoop(parts, 0, {})

\* the integer a watched symbol resolves to
_resolve_trg_int(sym) ==
    LET r == _expand(<<sym>>)
    IN IF r.err # "" THEN 0
       ELSE IF r.parts = <<>> \/ r.parts[1] = sym THEN 0
       ELSE _parse_int(r.parts[1])

(***************************************************************************)
(* Results of execute.  A result is [err, text]: err is TRUE for a string  *)
(* that begins with "Error:", text is the rest of the message.             *)
(***************************************************************************)
Ok == [err |-> FALSE, text |-> "OK"]
Err(m) == [err |-> TRUE, text |-> m]
Plain(m) == [err |-> FALSE, text |-> m]

\* what a handler leaves behind: the result and the stores it may write
Same(out) ==
    [out |-> out, routines |-> routines, texts |-> texts, tables |-> tables,
     events |-> events,
     event_latch |-> event_latch, event_thread |-> event_thread,
     onCount |-> hist.onCount]

\* a handler that raises: the exception, with what the handler wrote before
Raise(m) == [err |-> TRUE, text |-> m, raised |-> TRUE]
IsRaised(out) == "raised" \in DOMAIN out

\* a returned string that is the content of a store
Val(v) == [err |-> FALSE, text |-> "value", val |-> v]

DictDel(d, k) == [x \in (DOMAIN d) \ {k} |-> d[x]]
\* d.setdefault(k, v): a key that is there keeps its value
DictSetDefault(d, k, v) == [x \in (DOMAIN d) \cup {k} |-> IF x \in DOMAIN d THEN d[x] ELSE v]

DictSet(d, k, v) == [x \in (DOMAIN d) \cup {k} |-> IF x = k THEN v ELSE d[x]]

\* "&name" with len > 1
IsAmp(t) == t.pfx = "&" /\ BodyStr(t) # ""
AmpName(t) == BodyStr(t)

\* str.isdigit() on the text after the first ":"
IsDigits(segs) == Len(segs) = 1 /\ \E n \in 0 .. 4 : segs[1] = IntStr(n)
DigitsOf(segs) == CHOOSE n \in 0 .. 4 : segs[1] = IntStr(n)

\* _split_kv_target: [err, sub, key], key = "" standing for None
_split_kv_target(t) ==
    IF ~(t.pfx = "$" /\ BodyStr(t) # "")
    THEN [err |-> "Expected $<sub> or $<sub>:<key>", sub |-> "", key |-> ""]
    ELSE IF Len(t.body) = 1
    THEN [err |-> "", sub |-> BodyStr(t), key |-> ""]
    ELSE IF t.body[1] = "" \/ KeyOf(t) = ""
    THEN [err |-> "Expected $<sub>:<key>", sub |-> "", key |-> ""]
    ELSE [err |-> "", sub |-> t.body[1], key |-> KeyOf(t)]

\* _parse_hash: [err, path]
_parse_hash(t) ==
    LET path == [k \in 1 .. Len(t.body) |->
                    IF k = Len(t.body) THEN t.body[k] \o t.sfx ELSE t.body[k]]
    IN IF ~(t.pfx = "#" /\ BodyStr(t) # "")
       THEN [err |-> "Expected #<path>", path |-> <<>>]
       ELSE IF \E k \in 1 .. Len(path) : path[k] = ""
       THEN [err |-> "Invalid # path", path |-> <<>>]
       ELSE [err |-> "", path |-> path]

(***************************************************************************)
(* The tree store.  The tree is the function from the path of each node to *)
(* the node: [kind |-> "dict"] or [kind |-> "leaf", v |-> scalar].  The    *)
(* root dict is the empty path and is always there.                        *)
(***************************************************************************)
DictNode == [kind |-> "dict"]
Leaf(v) == [kind |-> "leaf", v |-> v]

IsPrefix(p, q) == Len(p) <= Len(q) /\ SubSeq(q, 1, Len(p)) = p
Front(p) == SubSeq(p, 1, Len(p) - 1)
Last(p) == p[Len(p)]

\* isinstance(node, dict) for the node at a path
IsDictAt(t, p) == p = <<>> \/ (p \in DOMAIN t /\ t[p].kind = "dict")
IsLeafAt(t, p) == p \in DOMAIN t /\ t[p].kind = "leaf"

\* _table_get: the node is there (not None)
_table_get(t, p) == p = <<>> \/ p \in DOMAIN t

\* the node at p with everything below it, by relative path
Subtree(t, p) ==
    [q \in {SubSeq(x, Len(p) + 1, Len(x)) : x \in {y \in DOMAIN t : IsPrefix(p, y)}}
        |-> t[p \o q]]

\* parent.pop(key): the node at p and everything below it leave the tree
Pruned(t, p) == [x \in {y \in DOMAIN t : ~IsPrefix(p, y)} |-> t[x]]

\* an assignment that merges into what is there instead of replacing it
GraftMerged(t, p, sub) ==
    [x \in (DOMAIN t) \cup {p \o q : q \in DOMAIN sub} |->
        IF IsPrefix(p, x) /\ SubSeq(x, Len(p) + 1, Len(x)) \in DOMAIN sub
        THEN sub[SubSeq(x, Len(p) + 1, Len(x))] ELSE t[x]]

\* parent[key] = node: the subtree replaces whatever was at p
Graft(t, p, sub) ==
    [x \in (DOMAIN Pruned(t, p)) \cup {p \o q : q \in DOMAIN sub} |->
        IF IsPrefix(p, x) THEN sub[SubSeq(x, Len(p) + 1, Len(x))] ELSE t[x]]

\* _table_ensure: [err, tree]; a missing node on the way becomes a dict, an
\* existing leaf on the way is a collision (nothing was created before it:
\* every node above an existing node exists)
_table_ensure(t, p) ==
    IF \E k \in 1 .. Len(p) : IsLeafAt(t, SubSeq(p, 1, k))
    THEN [err |-> "Path collision", tree |-> t]
    ELSE [err |-> "",
          tree |-> [x \in (DOMAIN t) \cup {SubSeq(p, 1, k) : k \in 1 .. Len(p)} |->
                       IF x \in DOMAIN t THEN t[x] ELSE DictNode]]

\* d_parent = _table_ensure(root, d_path[:-1]) if len(d_path) > 1 else root
EnsureParent(t, p) ==
    IF Len(p) > 1 THEN _table_ensure(t, Front(p)) ELSE [err |-> "", tree |-> t]

\* cur + text for two scalars: the chunks of cur, then text
TextAppend(cur, rest) == IF rest = <<>> THEN cur ELSE Append(cur, rest)

\* _table_set_leaf_append: [err, tree]
_table_set_leaf_append(t, p, rest) ==
    IF EnsureParent(t, p).err # "" THEN EnsureParent(t, p)
    ELSE IF IsDictAt(EnsureParent(t, p).tree, p)
    THEN [err |-> "Cannot overwrite dict node with scalar", tree |-> t]
    ELSE [err |-> "",
          tree |-> Graft(EnsureParent(t, p).tree, p,
                         (<<>> :> Leaf(TextAppend(
                             IF IsLeafAt(t, p) THEN t[p].v ELSE <<>>, rest))))]

\* _table_rm: nothing happens when the parent is no dict
_table_rm(t, p) == IF IsDictAt(t, Front(p)) THEN Pruned(t, p) ELSE t

\* _deep_clone_tree: every level is copied
_deep_clone_tree(sub) == sub

\* str(step) as a scalar, and a scalar as the text of a step: the chunks of
\* the scalar run together (the texts written here are single words)
StrOfStep(step) == IF step = <<>> THEN <<>> ELSE <<step>>

RECURSIVE StepOfStr(_)
StepOfStr(v) ==
    IF v = <<>> THEN <<>>
    ELSE IF Len(v) = 1 THEN v[1]
    ELSE LET a == v[1]
             b == StepOfStr(Tail(v))
         IN SubSeq(a, 1, Len(a) - 1)
              \o <<W(a[Len(a)].body[1] \o b[1].body[1])>> \o Tail(b)

(***************************************************************************)
(* Surface primitives (system/topics/surface.py).  A handler gives the     *)
(* value it returns or the exception it raises, and the stores as it       *)
(* leaves them.                                                            *)
(***************************************************************************)
mk(args) ==
    IF Len(args) # 1 THEN Same(Raise("TypeError"))
    ELSE IF args[1].pfx = "&"
    THEN IF ~IsAmp(args[1]) THEN Same(Raise("Expected &<name>"))
         ELSE [Same(Ok) EXCEPT !.routines =
                  IF AmpName(args[1]) \in DOMAIN routines THEN routines
                  ELSE DictSet(routines, AmpName(args[1]), <<>>)]
    ELSE IF args[1].pfx = "$"
    THEN LET kv == _split_kv_target(args[1]) IN
         IF kv.err # "" THEN Same(Raise(kv.err))
         ELSE IF kv.key # "" THEN Same(Raise("mk expects $<sub> only"))
         ELSE [Same(Ok) EXCEPT !.texts =
                  IF kv.sub \in DOMAIN texts THEN texts
                  ELSE DictSet(texts, kv.sub, <<>>)]
    ELSE IF args[1].pfx = "#"
    THEN LET h == _parse_hash(args[1]) IN
         IF h.err # "" THEN Same(Raise(h.err))
         ELSE IF _table_ensure(tables, h.path).err # ""
         THEN Same(Raise(_table_ensure(tables, h.path).err))
         ELSE [Same(Ok) EXCEPT !.tables = _table_ensure(tables, h.path).tree]
    ELSE Same(Raise("mk expects &<name> OR $<sub> OR #<path>"))

rm(args) ==
    IF Len(args) # 1 THEN Same(Raise("TypeError"))
    ELSE IF args[1].pfx = "&"
    THEN IF ~IsAmp(args[1]) THEN Same(Raise("Expected &<name>"))
         ELSE IF AmpName(args[1]) \notin DOMAIN routines
         THEN Same(Raise("Sub not found"))
         ELSE [Same(Ok) EXCEPT !.routines = DictDel(routines, AmpName(args[1]))]
    ELSE IF args[1].pfx = "$"
    THEN LET kv == _split_kv_target(args[1]) IN
         IF kv.err # "" THEN Same(Raise(kv.err))
         ELSE IF kv.key # "" THEN Same(Raise("rm expects $<sub> only"))
         ELSE IF kv.sub \notin DOMAIN texts THEN Same(Raise("Sub not found"))
         ELSE [Same(Ok) EXCEPT !.texts = DictDel(texts, kv.sub)]
    ELSE IF args[1].pfx = "#"
    THEN LET h == _parse_hash(args[1]) IN
         IF h.err # "" THEN Same(Raise(h.err))
         ELSE [Same(Ok) EXCEPT !.tables = _table_rm(tables, h.path)]
    ELSE Same(Raise("rm expects &<name> OR $<sub> OR #<path>"))

add_item(args) ==
    IF Len(args) < 1 THEN Same(Raise("TypeError"))
    ELSE IF args[1].pfx = "&"
    THEN IF ~IsAmp(args[1]) THEN Same(Raise("Expected &<name>"))
         ELSE IF AmpName(args[1]) \notin DOMAIN routines
         THEN Same(Raise("Sub not found"))
         ELSE [Same(Ok) EXCEPT !.routines =
                  [routines EXCEPT ![AmpName(args[1])] = Append(@, Tail(args))]]
    ELSE IF args[1].pfx = "$"
    THEN LET kv  == _split_kv_target(args[1])
             d   == IF kv.sub \in DOMAIN texts THEN texts[kv.sub] ELSE <<>>
             cur == IF kv.key \in DOMAIN d THEN d[kv.key] ELSE <<>>
             k   == args[2].pfx \o BodyStr(args[2])
         IN IF kv.err # "" THEN Same(Raise(kv.err))
            ELSE IF kv.key = ""
            THEN IF Len(args) # 2
                 THEN [Same(Raise("add.item $<sub> expects exactly one <key>"))
                          EXCEPT !.texts = DictSet(texts, kv.sub, d)]
                 ELSE [Same(Ok) EXCEPT !.texts =
                          DictSet(texts, kv.sub,
                                  IF k \in DOMAIN d THEN d ELSE DictSet(d, k, <<>>))]
            ELSE [Same(Ok) EXCEPT !.texts =
                     DictSet(texts, kv.sub,
                             DictSet(d, kv.key, TextAppend(cur, Tail(args))))]
    ELSE IF args[1].pfx = "#"
    THEN LET h == _parse_hash(args[1]) IN
         IF Tail(args) = <<>>
         THEN Same(Raise("add.item #<path> expects <text...>"))
         ELSE IF h.err # "" THEN Same(Raise(h.err))
         ELSE IF _table_set_leaf_append(tables, h.path, Tail(args)).err # ""
         THEN Same(Raise(_table_set_leaf_append(tables, h.path, Tail(args)).err))
         ELSE [Same(Ok) EXCEPT !.tables =
                  _table_set_leaf_append(tables, h.path, Tail(args)).tree]
    ELSE Same(Raise("add.item expects &... or $... or #..."))

ls(args) ==
    IF Len(args) = 0 THEN Same(Plain("summary"))
    ELSE IF Len(args) > 1 THEN Same(Raise("TypeError"))
    ELSE IF args[1].pfx = "&" /\ IsAmp(args[1])
    THEN IF AmpName(args[1]) \in DOMAIN routines THEN Same(Plain("steps"))
         ELSE Same(Raise("Sub not found"))
    ELSE Same(Raise("ls usage"))

cat(args) ==
    IF Len(args) # 1 THEN Same(Raise("TypeError"))
    ELSE IF args[1].pfx = "$"
    THEN IF Len(args[1].body) = 1 THEN Same(Raise("Expected $<sub>:<key>"))
         ELSE IF args[1].body[1] \notin DOMAIN texts THEN Same(Raise("Sub not found"))
         ELSE IF KeyOf(args[1]) \notin DOMAIN texts[args[1].body[1]]
         THEN Same(Raise("Key not found"))
         ELSE Same(Val(texts[args[1].body[1]][KeyOf(args[1])]))
    ELSE IF args[1].pfx = "&"
    THEN IF ~IsAmp(args[1]) THEN Same(Raise("Expected &<name>"))
         ELSE IF AmpName(args[1]) \in DOMAIN routines THEN Same(Plain("steps"))
         ELSE Same(Raise("Sub not found"))
    ELSE IF args[1].pfx = "#"
    THEN LET h == _parse_hash(args[1]) IN
         IF h.err # "" THEN Same(Raise(h.err))
         ELSE IF ~_table_get(tables, h.path) THEN Same(Val(<<>>))
         ELSE IF IsDictAt(tables, h.path)
         THEN Same(Raise("cat expects a leaf; use ls for dict nodes"))
         ELSE Same(Val(tables[h.path].v))
    ELSE Same(Raise("cat expects $... or &... or #..."))

(***************************************************************************)
(* cp and mv (system/topics/surface.py).                                   *)
(***************************************************************************)
\* "&name" or "&name:idx": [err, name, idx], idx = -1 standing for None
AmpIdx(t) ==
    IF BodyStr(t) = ""
    THEN [err |-> "Expected &<name> or &<name>:<idx>", name |-> "", idx |-> -1]
    ELSE IF Len(t.body) = 1
    THEN [err |-> "", name |-> BodyStr(t), idx |-> -1]
    ELSE IF ~(IsDigits(Tail(t.body)) /\ t.sfx = "")
    THEN [err |-> "Index must be integer", name |-> "", idx |-> -1]
    ELSE [err |-> "", name |-> t.body[1], idx |-> DigitsOf(Tail(t.body))]

\* steps.append(val) / steps[idx] = val, idx counted from 0
StepsPut(steps, idx, val) ==
    IF idx = -1 \/ idx = Len(steps) THEN Append(steps, val)
    ELSE [steps EXCEPT ![idx + 1] = val]

\* steps.pop(idx), idx counted from 0
StepsPop(steps, idx) ==
    SubSeq(steps, 1, idx) \o SubSeq(steps, idx + 2, Len(steps))

\* the direct children of the node at p
Children(t, p) == {x \in DOMAIN t : Len(x) = Len(p) + 1 /\ IsPrefix(p, x)}

\* {k: v for k, v in subdict.items()} as a node of the tree
TreeOfSub(d) ==
    [q \in {<<>>} \cup {<<k>> : k \in DOMAIN d} |->
        IF q = <<>> THEN DictNode ELSE Leaf(d[q[1]])]

\* a dict object held where a scalar is expected: no text
DictValue == <<<<Tok("{}", <<>>, "")>>>>

\* {k: v for k, v in s_val.items()} as a text namespace
SubOfTree(t, p) ==
    [k \in {Last(x) : x \in Children(t, p)} |->
        IF t[Append(p, k)].kind = "leaf" THEN t[Append(p, k)].v ELSE DictValue]

\* a copy that takes the children as they are, nested dicts included
NestedUnchecked(t, p) == FALSE

\* for k, v in s_val.items(): if isinstance(v, dict): raise
HasNestedDict(t, p) == \E x \in Children(t, p) : t[x].kind = "dict"

\* core.kvl["texts"].setdefault(sub, {})
WithSub(tx, sub) == IF sub \in DOMAIN tx THEN tx ELSE DictSet(tx, sub, <<>>)

\* core.l["routines"].setdefault(name, [])
WithRoutine(rt, name) == IF name \in DOMAIN rt THEN rt ELSE DictSet(rt, name, <<>>)

cp_hash_hash(src, dst) ==
    LET hs == _parse_hash(src)
        hd == _parse_hash(dst)
        e  == EnsureParent(tables, hd.path)
    IN IF hs.err # "" THEN Same(Raise(hs.err))
       ELSE IF hd.err # "" THEN Same(Raise(hd.err))
       ELSE IF ~_table_get(tables, hs.path) THEN Same(Raise("Source #path not found"))
       ELSE IF e.err # "" THEN Same(Raise(e.err))
       ELSE [Same(Ok) EXCEPT !.tables =
                Graft(e.tree, hd.path, _deep_clone_tree(Subtree(e.tree, hs.path)))]

cp_dollar_hash(src, dst) ==
    LET kv == _split_kv_target(src)
        hd == _parse_hash(dst)
        e  == EnsureParent(tables, hd.path)
    IN IF kv.err # "" THEN Same(Raise(kv.err))
       ELSE IF hd.err # "" THEN Same(Raise(hd.err))
       ELSE IF kv.sub \notin DOMAIN texts THEN Same(Raise("Sub not found"))
       ELSE IF kv.key = ""
       THEN IF e.err # "" THEN Same(Raise(e.err))
            ELSE [Same(Ok) EXCEPT !.tables =
                     Graft(e.tree, hd.path, TreeOfSub(texts[kv.sub]))]
       ELSE IF kv.key \notin DOMAIN texts[kv.sub]
       THEN Same(Raise("Source key not found"))
       ELSE IF e.err # "" THEN Same(Raise(e.err))
       ELSE [Same(Ok) EXCEPT !.tables =
                Graft(e.tree, hd.path, (<<>> :> Leaf(texts[kv.sub][kv.key])))]

cp_hash_dollar(src, dst) ==
    LET hs == _parse_hash(src)
        kv == _split_kv_target(dst)
    IN IF hs.err # "" THEN Same(Raise(hs.err))
       ELSE IF kv.err # "" THEN Same(Raise(kv.err))
       ELSE IF ~_table_get(tables, hs.path) THEN Same(Raise("Source #path not found"))
       ELSE IF kv.key = ""
       THEN IF ~IsDictAt(tables, hs.path)
            THEN Same(Raise("cp #-> $sub expects #path to be a dict node"))
            ELSE IF HasNestedDict(tables, hs.path)
            THEN Same(Raise("Cannot import nested dict into $sub"))
            ELSE [Same(Ok) EXCEPT !.texts =
                     DictSet(texts, kv.sub, SubOfTree(tables, hs.path))]
       ELSE IF IsDictAt(tables, hs.path)
       THEN Same(Raise("cp #leaf -> $sub:key requires #path to be a leaf value"))
       ELSE [Same(Ok) EXCEPT !.texts =
                DictSet(texts, kv.sub,
                        DictSet(WithSub(texts, kv.sub)[kv.sub], kv.key,
                                tables[hs.path].v))]

cp_amp_hash(src, dst) ==
    LET name == src.body[1]
        idx  == DigitsOf(Tail(src.body))
        hd   == _parse_hash(dst)
        e    == EnsureParent(tables, hd.path)
    IN IF Len(src.body) = 1
       THEN Same(Raise("cp &-># supports only one step: cp &name:<idx> #path"))
       ELSE IF ~(IsDigits(Tail(src.body)) /\ src.sfx = "")
       THEN Same(Raise("Index must be integer"))
       ELSE IF hd.err # "" THEN Same(Raise(hd.err))
       ELSE IF name \notin DOMAIN routines THEN Same(Raise("Sub not found"))
       ELSE IF idx >= Len(routines[name]) THEN Same(Raise("Step index out of range"))
       ELSE IF e.err # "" THEN Same(Raise(e.err))
       ELSE [Same(Ok) EXCEPT !.tables =
                Graft(e.tree, hd.path,
                      (<<>> :> Leaf(StrOfStep(routines[name][idx + 1]))))]

cp_hash_amp(src, dst) ==
    LET hs == _parse_hash(src)
        d  == AmpIdx(dst)
    IN IF hs.err # "" THEN Same(Raise(hs.err))
       ELSE IF ~_table_get(tables, hs.path) THEN Same(Raise("Source #path not found"))
       ELSE IF IsDictAt(tables, hs.path)
       THEN Same(Raise("cp #->& requires #path to be a leaf value"))
       ELSE IF d.err # "" THEN Same(Raise(d.err))
       ELSE IF d.name \notin DOMAIN routines THEN Same(Raise("Sub not found"))
       ELSE IF d.idx > Len(routines[d.name]) THEN Same(Raise("Index out of range"))
       ELSE [Same(Ok) EXCEPT !.routines =
                [routines EXCEPT ![d.name] =
                    StepsPut(@, d.idx, StepOfStr(tables[hs.path].v))]]

cp_dollar_dollar(src, dst) ==
    LET s == _split_kv_target(src)
        d == _split_kv_target(dst)
    IN IF s.err # "" THEN Same(Raise(s.err))
       ELSE IF d.err # "" THEN Same(Raise(d.err))
       ELSE IF s.key = "" /\ d.key = ""
       THEN IF s.sub \notin DOMAIN texts THEN Same(Raise("Sub not found"))
            ELSE [Same(Ok) EXCEPT !.texts = DictSet(texts, d.sub, texts[s.sub])]
       ELSE IF s.key # "" /\ d.key # ""
       THEN IF s.sub \notin DOMAIN texts THEN Same(Raise("Sub not found"))
            ELSE IF s.key \notin DOMAIN texts[s.sub]
            THEN Same(Raise("Source key not found"))
            ELSE [Same(Ok) EXCEPT !.texts =
                     DictSet(texts, d.sub,
                             DictSet(WithSub(texts, d.sub)[d.sub], d.key,
                                     texts[s.sub][s.key]))]
       ELSE Same(Raise("cp $->$ requires same level"))

cp_dollar_amp(src, dst) ==
    LET s == _split_kv_target(src)
        d == AmpIdx(dst)
    IN IF s.err # "" THEN Same(Raise(s.err))
       ELSE IF s.key = "" THEN Same(Raise("cp $->& supports only one key"))
       ELSE IF d.err # "" THEN Same(Raise(d.err))
       ELSE IF d.name \notin DOMAIN routines THEN Same(Raise("Sub not found"))
       ELSE IF s.sub \notin DOMAIN texts THEN Same(Raise("Sub not found"))
       ELSE IF s.key \notin DOMAIN texts[s.sub]
       THEN Same(Raise("Source key not found"))
       ELSE IF d.idx > Len(routines[d.name]) THEN Same(Raise("Index out of range"))
       ELSE [Same(Ok) EXCEPT !.routines =
                [routines EXCEPT ![d.name] =
                    StepsPut(@, d.idx, StepOfStr(texts[s.sub][s.key]))]]

cp_amp_dollar(src, dst) ==
    LET name == src.body[1]
        idx  == DigitsOf(Tail(src.body))
        d    == _split_kv_target(dst)
    IN IF Len(src.body) = 1
       THEN Same(Raise("cp &->$ supports only one step: cp &name:<idx> $sub:key"))
       ELSE IF ~(IsDigits(Tail(src.body)) /\ src.sfx = "")
       THEN Same(Raise("Index must be integer"))
       ELSE IF d.err # "" THEN Same(Raise(d.err))
       ELSE IF d.key = "" THEN Same(Raise("cp &->$ requires $sub:key"))
       ELSE IF name \notin DOMAIN routines THEN Same(Raise("Sub not found"))
       ELSE IF idx >= Len(routines[name]) THEN Same(Raise("Step index out of range"))
       ELSE [Same(Ok) EXCEPT !.texts =
                DictSet(texts, d.sub,
                        DictSet(WithSub(texts, d.sub)[d.sub], d.key,
                                StrOfStep(routines[name][idx + 1])))]

cp_amp_amp(src, dst) ==
    IF ~IsAmp(src) \/ ~IsAmp(dst) THEN Same(Raise("Expected &<name>"))
    ELSE IF AmpName(src) \notin DOMAIN routines THEN Same(Raise("Sub not found"))
    ELSE [Same(Ok) EXCEPT !.routines =
             DictSet(routines, AmpName(dst), routines[AmpName(src)])]

cp(args) ==
    IF Len(args) # 2 THEN Same(Raise("TypeError"))
    ELSE LET src == args[1]
             dst == args[2]
         IN CASE src.pfx = "#" /\ dst.pfx = "#" -> cp_hash_hash(src, dst)
              [] src.pfx = "$" /\ dst.pfx = "#" -> cp_dollar_hash(src, dst)
              [] src.pfx = "#" /\ dst.pfx = "$" -> cp_hash_dollar(src, dst)
              [] src.pfx = "&" /\ dst.pfx = "#" -> cp_amp_hash(src, dst)
              [] src.pfx = "#" /\ dst.pfx = "&" -> cp_hash_amp(src, dst)
              [] src.pfx = "$" /\ dst.pfx = "$" -> cp_dollar_dollar(src, dst)
              [] src.pfx = "$" /\ dst.pfx = "&" -> cp_dollar_amp(src, dst)
              [] src.pfx = "&" /\ dst.pfx = "$" -> cp_amp_dollar(src, dst)
              [] src.pfx = "&" /\ dst.pfx = "&" -> cp_amp_amp(src, dst)
              [] OTHER -> Same(Raise("cp supports $->$, $->&, &->$, &->&, plus $<->#, &<->#, #->#"))

mv_hash_hash(src, dst) ==
    LET hs   == _parse_hash(src)
        hd   == _parse_hash(dst)
        node == Subtree(tables, hs.path)
        t1   == Pruned(tables, hs.path)
        e    == EnsureParent(t1, hd.path)
    IN IF hs.err # "" THEN Same(Raise(hs.err))
       ELSE IF hd.err # "" THEN Same(Raise(hd.err))
       ELSE IF hs.path \notin DOMAIN tables THEN Same(Raise("Source #path not found"))
       ELSE IF e.err # "" THEN [Same(Raise(e.err)) EXCEPT !.tables = t1]
       ELSE [Same(Ok) EXCEPT !.tables = Graft(e.tree, hd.path, node)]

mv_dollar_dollar(src, dst) ==
    LET s  == _split_kv_target(src)
        d  == _split_kv_target(dst)
        t1 == WithSub(texts, d.sub)
        t2 == [t1 EXCEPT ![s.sub] = DictDel(@, s.key)]
    IN IF s.err # "" THEN Same(Raise(s.err))
       ELSE IF d.err # "" THEN Same(Raise(d.err))
       ELSE IF s.sub \notin DOMAIN texts THEN Same(Raise("Sub not found"))
       ELSE IF s.key = "" /\ d.key = ""
       THEN [Same(Ok) EXCEPT !.texts = DictSet(DictDel(t1, s.sub), d.sub, t1[s.sub])]
       ELSE IF s.key # "" /\ d.key # ""
       THEN IF s.key \notin DOMAIN t1[s.sub]
            THEN [Same(Raise("Source key not found")) EXCEPT !.texts = t1]
            ELSE [Same(Ok) EXCEPT !.texts =
                     [t2 EXCEPT ![d.sub] = DictSet(@, d.key, t1[s.sub][s.key])]]
       ELSE [Same(Raise("mv $->$ requires same level")) EXCEPT !.texts = t1]

mv_amp_amp(src, dst) ==
    LET s  == AmpIdx(src)
        d  == AmpIdx(dst)
        r1 == WithRoutine(routines, d.name)
        r2 == [r1 EXCEPT ![s.name] = StepsPop(@, s.idx)]
    IN IF s.err # "" THEN Same(Raise(s.err))
       ELSE IF d.err # "" THEN Same(Raise(d.err))
       ELSE IF s.name \notin DOMAIN routines THEN Same(Raise("Sub not found"))
       ELSE IF s.idx = -1 /\ d.idx = -1
       THEN [Same(Ok) EXCEPT !.routines =
                DictSet(DictDel(r1, s.name), d.name, r1[s.name])]
       ELSE IF s.idx # -1 /\ d.idx # -1
       THEN IF s.idx >= Len(r1[s.name])
            THEN [Same(Raise("Source index out of range")) EXCEPT !.routines = r1]
            ELSE IF d.idx > Len(r2[d.name])
            THEN [Same(Raise("Destination index out of range"))
                     EXCEPT !.routines = r2]
            ELSE [Same(Ok) EXCEPT !.routines =
                     [r2 EXCEPT ![d.name] = StepsPut(@, d.idx, r1[s.name][s.idx + 1])]]
       ELSE [Same(Raise("mv &->& requires same level")) EXCEPT !.routines = r1]

\* a move that starts to work on equal arguments: what the first test excludes
mv_without_sentinel(src, dst) == FALSE

\* if src == dst: return "Need coffee?"
mv_same(src, dst) == src = dst

mv(args) ==
    IF Len(args) # 2 THEN Same(Raise("TypeError"))
    ELSE LET src == args[1]
             dst == args[2]
         IN IF mv_same(src, dst) THEN Same(Plain("Need coffee?"))
            ELSE CASE src.pfx = "#" /\ dst.pfx = "#" -> mv_hash_hash(src, dst)
                   [] src.pfx = "$" /\ dst.pfx = "$" -> mv_dollar_dollar(src, dst)
                   [] src.pfx = "&" /\ dst.pfx = "&" -> mv_amp_amp(src, dst)
                   [] OTHER -> Same(Raise("mv supports $->$, &->&, and #-># only"))

(***************************************************************************)
(* Import (system/topics/io.py).  The file system is the environment: a    *)
(* directory is the sequence of its readable files in traversal order      *)
(* (entries sorted by name, sub-directories walked in place), each with    *)
(* its path relative to the directory and its text.                        *)
(***************************************************************************)
File(rel, txt) == [rel |-> rel, txt |-> txt]

\* the directories of the file system, by path
Dirs ==
    ("d0" :> <<File(<<"x.trg">>, <<>>)>>) @@
    ("d2" :> <<File(<<"x.trg">>, <<<<Num(2)>>>>)>>) @@
    ("dv" :> <<File(<<"x.trg">>, <<<<W("v")>>>>)>>) @@
    ("dn" :> <<File(<<"x.trg", "f">>, <<<<Num(2)>>>>)>>)

\* tbl.leaf_set: [err, tree]
leaf_set(t, p, text) ==
    IF p = <<>> THEN [err |-> "Empty # path", tree |-> t]
    ELSE IF _table_ensure(t, Front(p)).err # "" THEN _table_ensure(t, Front(p))
    ELSE IF IsDictAt(_table_ensure(t, Front(p)).tree, p)
    THEN [err |-> "Cannot overwrite dict node with scalar",
          tree |-> _table_ensure(t, Front(p)).tree]
    ELSE [err |-> "",
          tree |-> Graft(_table_ensure(t, Front(p)).tree, p, (<<>> :> Leaf(text)))]

RECURSIVE walk_dir(_, _, _)
\* walk_dir: one leaf_set per file; the first one that raises ends the walk
walk_dir(t, root_path, files) ==
    IF files = <<>> THEN [err |-> "", tree |-> t]
    ELSE LET r == leaf_set(t, root_path \o files[1].rel, files[1].txt)
         IN IF r.err # "" THEN r ELSE walk_dir(r.tree, root_path, Tail(files))

import_many(args) ==
    IF Len(args) # 2 THEN Same(Raise("TypeError"))
    ELSE IF ~(IsWord(args[1]) /\ args[1].body[1] \in DOMAIN Dirs)
    THEN Same(Raise("import.many expects a directory path"))
    ELSE IF args[2].pfx # "#"
    THEN Same(Raise("import.many dst must be #path root"))
    ELSE IF _parse_hash(args[2]).err # "" THEN Same(Raise(_parse_hash(args[2]).err))
    ELSE LET root_path == _parse_hash(args[2]).path
             e == _table_ensure(tables, root_path)
             w == walk_dir(e.tree, root_path, Dirs[args[1].body[1]])
         IN IF e.err # "" THEN Same(Raise(e.err))
            ELSE IF w.err # "" THEN [Same(Raise(w.err)) EXCEPT !.tables = w.tree]
            ELSE [Same(Plain("OK imported")) EXCEPT !.tables = w.tree]

(***************************************************************************)
(* Event bindings (system/topics/events.py).                               *)
(***************************************************************************)
\* no test of the command at all
ControlAllowed(cmd) == FALSE

IsRunnerControl(cmd) ==
    /\ Len(cmd) >= 2
    /\ cmd[1] \in {W("run"), W("status"), W("pause"), W("stop")}
    /\ cmd[2].pfx = "%"

Binding(sym, v, cmd, id) ==
    [symbol |-> sym, value |-> v, command |-> cmd, id |-> id]

on(args) ==
    IF Len(args) < 2 THEN Same(Raise("TypeError"))
    ELSE IF ~_is_trg_symbol(args[1]) THEN Same(Raise("ON expects a *.trg symbol"))
    ELSE IF _parse_int(args[2]) = 0 THEN Same(Raise("ON value cannot be 0"))
    ELSE IF _parse_int(args[2]) = 3 THEN Same(Raise("ON cannot bind value 3"))
    ELSE IF Len(args) = 2 THEN Same(Raise("ON expects a command"))
    ELSE IF IsRunnerControl(SubSeq(args, 3, Len(args)))
    THEN Same(Raise("Events cannot control runners (%)"))
    ELSE [Same(Ok) EXCEPT
            !.events = Append(events,
                Binding(args[1], _parse_int(args[2]),
                        SubSeq(args, 3, Len(args)), hist.onCount + 1)),
            !.onCount = hist.onCount + 1,
            !.event_thread = TRUE]

reset(args) ==
    IF Len(args) # 1 THEN Same(Raise("TypeError"))
    ELSE LET hit(e) == _match_pattern(e.symbol, args[1])
             keep(e) == ~hit(e)
             removed_syms == {events[k].symbol : k \in {x \in 1 .. Len(events) : hit(events[x])}}
         IN [Same(Ok) EXCEPT
               !.events = SelectSeq(events, keep),
               !.event_latch = [s \in (DOMAIN event_latch) \ removed_syms |-> event_latch[s]]]

(***************************************************************************)
(* Core.dispatch_internal and Core.execute for the handlers that run to    *)
(* completion inside one call (system/core.py).                            *)
(***************************************************************************)
CmdName(parts) == IF IsWord(parts[1]) THEN parts[1].body[1] ELSE "?"

\* sys.status %name: a query, no store is written
status(args) ==
    IF Len(args) # 1 THEN Same(Raise("TypeError"))
    ELSE IF args[1].pfx # "%" THEN Same(Raise("Expected %name"))
    ELSE IF BodyStr(args[1]) \in DOMAIN runners
    THEN Same(Plain(jobs[runners[BodyStr(args[1])]].status))
    ELSE Same(Plain("NOT_FOUND"))

\* sys.run <cmd...>, the single-shot mode: the handler of run, called inside
\* execute, calls core.execute on the rest of the line
IsSingleShot(parts) ==
    CmdName(parts) = "sys.run" /\ Len(parts) >= 2 /\ parts[2].pfx # "%"

RECURSIVE execute(_)

dispatch_internal(parts) ==
    IF parts = <<>> THEN Same(Plain(""))
    ELSE CASE IsSingleShot(parts) -> execute(Tail(parts))
           [] CmdName(parts) = "sys.mk" -> mk(Tail(parts))
           [] CmdName(parts) = "sys.rm" -> rm(Tail(parts))
           [] CmdName(parts) = "sys.add.item" -> add_item(Tail(parts))
           [] CmdName(parts) = "sys.ls" -> ls(Tail(parts))
           [] CmdName(parts) = "sys.cat" -> cat(Tail(parts))
           [] CmdName(parts) = "sys.cp" -> cp(Tail(parts))
           [] CmdName(parts) = "sys.mv" -> mv(Tail(parts))
           [] CmdName(parts) = "sys.io.import.many" -> import_many(Tail(parts))
           [] CmdName(parts) = "sys.status" -> status(Tail(parts))
           [] CmdName(parts) = "sys.ev.on" -> on(Tail(parts))
           [] CmdName(parts) = "sys.ev.reset" -> reset(Tail(parts))
           [] OTHER -> Same(Plain("Unknown command: X"))

\* a gate that lets every head through: what the surface gate excludes
GateOpen(head) == TRUE

\* the surface gate: the head is "help" or a key of the alias table
Gate(head) == head = W("help") \/ has_alias(head)

\* a call of the handler with no except clause around it: the exception goes
\* on to the caller of execute
Uncaught(e) == e

\* try: out = handler(...) except Exception as e: out = f"Error: {e}"
Caught(e) == IF IsRaised(e.out) THEN [e EXCEPT !.out = Err(e.out.text)] ELSE e

\* the names core.commands holds a handler of in this model
Registered(parts) ==
    \/ IsSingleShot(parts)
    \/ CmdName(parts) \in {"sys.mk", "sys.rm", "sys.add.item", "sys.ls", "sys.cat",
                           "sys.cp", "sys.mv", "sys.io.import.many", "sys.status",
                           "sys.ev.on", "sys.ev.reset"}

execute(raw) ==
    IF raw = <<>> THEN Same(Plain("None"))
    ELSE IF ~Gate(raw[1])
    THEN Same(Plain("Unknown command"))
    ELSE LET x == _expand(raw)
         IN IF x.err # "" THEN Same(Err(x.err))
            ELSE Caught(dispatch_internal(x.parts))

\* the entries one call of execute appends to core.log, in order; a
\* single-shot run holds the entries of the call it makes
RECURSIVE LogOf(_)
LogOf(raw) ==
    <<[in |-> raw]>> \o
    (IF raw = <<>> \/ ~Gate(raw[1]) THEN <<>>
     ELSE IF _expand(raw).err # "" THEN <<[out |-> Err(_expand(raw).err)]>>
     ELSE IF ~Registered(_expand(raw).parts) THEN <<>>
     ELSE (IF IsSingleShot(_expand(raw).parts)
           THEN LogOf(Tail(_expand(raw).parts)) ELSE <<>>)
          \o <<[out |-> execute(raw).out]>>)

(***************************************************************************)
(* The lines the calling thread issues, and the steps routines hold.       *)
(***************************************************************************)
StepLs == <<W("ls")>>                       \* succeeds
StepEmpty == <<>>                           \* "add.item &r" with no text
StepErr == <<W("cat"), Amp("nosuch")>>      \* returns "Error: Sub not found..."
StepCtl == <<W("run"), Pct("a")>>           \* a runner-control step
Steps == {StepLs, StepEmpty, StepErr, StepCtl}

\* a line whose head is an internal name, not an alias
LineInternal == <<W("sys.mk"), Amp("r")>>

\* single-shot run of a line
SingleShot(line) == <<W("run")>> \o line

CmdLog == <<W("add.item"), Tok("$", <<"log", "line">>, ""), W("ok")>>
Cmds == {CmdLog, LineInternal}

XTrg == Tok("", <<"x">>, ".trg")            \* "x.trg": no expander rewrites it
OnSymbols == {PctTrg(n) : n \in RunnerNames} \cup {XTrg}
OnValues == {1, 2, 3}

OnLine(sym, n, cmd) == <<W("ON"), sym, Num(n)>> \o cmd

StoreLines ==
    {<<W("mk"), Amp(r)>> : r \in RoutineNames}
    \cup {LineInternal, SingleShot(LineInternal)}
    \cup {SingleShot(<<W("mk"), Amp(r)>>) : r \in RoutineNames}
    \cup {<<W("rm"), Amp(r)>> : r \in RoutineNames}
    \cup {<<W("add.item"), Amp(r)>> \o s : r \in RoutineNames, s \in Steps}

EventLines ==
    {OnLine(sym, n, cmd) : sym \in OnSymbols, n \in OnValues, cmd \in Cmds}
    \cup {<<W("ON.reset"), Tok("", <<"*">>, ".trg")>>}

\* what follows "run %name": nothing (the routine &name), a routine, a literal
\* command line
RunTargets ==
    {<<>>} \cup {<<Amp(r)>> : r \in RoutineNames} \cup {LineInternal}

\* the calling thread may make another call
MayCall == repl.pc = "idle" /\ hist.calls < MaxCalls

\* the guards that keep the model finite
WithinBounds(raw) ==
    /\ (raw[1] = W("add.item") /\ raw[2].pfx = "&" /\ AmpName(raw[2]) \in DOMAIN routines)
          => Len(routines[AmpName(raw[2])]) < MaxSteps
    /\ raw[1] \in {W("ON"), W("sys.ev.on")} => hist.onCount < hist.cap

\* no run of _expand is being followed
XIdle == [pc |-> "none", exps |-> <<>>, max |-> 0, parts |-> "", seen |-> {},
          pass |-> 0, done |-> <<>>, out |-> ""]

(***************************************************************************)
(* Initial state: Core.__init__                                            *)
(***************************************************************************)
InitFull(max_passes, run, cap) ==
    /\ routines = <<>>
    /\ texts = <<>>
    /\ tables = <<>>
    /\ expand_max_passes = max_passes
    /\ xp = run
    /\ runners = <<>>
    /\ jobs = <<>>
    /\ wk = <<>>
    /\ runner_locks = <<>>
    /\ events = <<>>
    /\ event_latch = <<>>
    /\ event_thread = FALSE
    /\ poll = [pc |-> "tick", symbols |-> <<>>, idx |-> 0, val |-> 0,
               matches |-> <<>>, kept |-> <<>>]
    /\ exec_lock = "none"
    /\ repl = [pc |-> "idle", job |-> 0, raw |-> <<>>]
    /\ ret = [via |-> "", out |-> Plain("")]
    /\ hist = [onCount |-> 0, snap |-> <<>>, executed |-> <<>>,
               fired |-> <<>>, hot |-> {}, age |-> <<>>, watch |-> <<>>,
               missed |-> {}, calls |-> 0, woken |-> {}, cap |-> cap]

\* the state after init_core(), with the model's bound on successful ON calls
InitWith(max_passes, run) == InitFull(max_passes, run, MaxBindings)

Init == InitWith(DEFAULT_MAX_PASSES, XIdle)

\* the stores a handler result carries
Commit(e) ==
    /\ routines' = e.routines
    /\ texts' = e.texts
    /\ tables' = e.tables
    /\ events' = e.events
    /\ event_latch' = e.event_latch
    /\ event_thread' = e.event_thread

\* history: a binding added by the handler starts with no invocation
HistOn(h, e) ==
    [h EXCEPT !.onCount = e.onCount,
              !.fired = IF e.onCount > h.onCount THEN Append(@, 0) ELSE @]

Called(h) == [h EXCEPT !.calls = @ + 1]

\* the entry the calling thread used and the value it got back
Returned(via, raw, out) == [via |-> via, out |-> out]

\* a gate that is not there: any thread enters at any time
EntersUnguarded(t) == TRUE

\* a lock that is not re-entrant: the holder waits for itself
EntersWhenFree(t) == exec_lock = "none"

\* with self.exec_lock (a re-entrant lock): thread t enters the body of
\* execute when no thread holds the gate or t itself does
CanEnter(t) == exec_lock \in {"none", t}

(***************************************************************************)
(* The calling thread: Core.execute(raw) for a store or event line.        *)
(***************************************************************************)
Execute(raw) ==
    LET e == execute(raw) IN
    /\ MayCall
    /\ CanEnter("repl")
    /\ WithinBounds(raw)
    /\ Commit(e)
    /\ hist' = Called(HistOn(hist, e))
    /\ ret' = Returned("execute", raw, e.out)
    /\ UNCHANGED <<expand_max_passes, xp, runners, jobs, wk, runner_locks, poll, exec_lock, repl>>

\* Core.dispatch_internal(parts): no expansion, no gate, no exec_lock
DispatchInternal(parts) ==
    /\ MayCall
    /\ WithinBounds(parts)
    /\ Commit(dispatch_internal(parts))
    /\ hist' = Called(HistOn(hist, dispatch_internal(parts)))
    /\ ret' = Returned("dispatch_internal", parts, dispatch_internal(parts).out)
    /\ UNCHANGED <<expand_max_passes, xp, runners, jobs, wk, runner_locks, poll, exec_lock, repl>>

(***************************************************************************)
(* Runner (system/topics/runner.py).                                       *)
(***************************************************************************)
RunnerJob(name) ==
    [name |-> name, status |-> "idle", step_i |-> 0, last_error |-> "None",
     stop_requested |-> FALSE, paused |-> FALSE, trg |-> 0]

NoWorker == [pc |-> "none", i |-> 0, steps |-> <<>>, tok |-> "", val |-> 0, err |-> ""]

Active(name) ==
    name \in DOMAIN runners /\ jobs[runners[name]].status \in {"running", "paused"}

_lock_routine(tok, name, state) ==
    DictSet(runner_locks, tok, [runner |-> name, state |-> state])

\* an exit that leaves the record in place: what "always release" excludes
_unlock_routine_skipped(tok) == runner_locks

_unlock_routine(tok) == DictDel(runner_locks, tok)

\* history of a new job: the step list it was started on
NewJobHist(steps) ==
    [hist EXCEPT !.snap = Append(@, steps), !.executed = Append(@, <<>>),
                 !.age = Append(@, 0), !.watch = Append(@, {}),
                 !.calls = @ + 1]

\* the target of "run %name [target...]": default &<name>
TargetOf(name, rest) == IF rest = <<>> THEN Amp(name) ELSE rest[1]

\* sys.run %name ... : the whole handler, the thread start included
Run(name, rest) ==
    LET raw == <<W("run"), Pct(name)>> \o rest
        target == TargetOf(name, rest)
        j == Len(jobs) + 1
    IN
    /\ MayCall
    /\ CanEnter("repl")
    /\ target.pfx \in {"&", ""}
    /\ UNCHANGED <<expand_max_passes, xp, routines, texts, tables, events, event_latch, event_thread, poll,
                   exec_lock, repl>>
    /\ IF Active(name)
       THEN /\ ret' = Returned("execute", raw, Err("Runner already active"))
            /\ hist' = Called(hist)
            /\ UNCHANGED <<runners, jobs, wk, runner_locks>>
       ELSE /\ Len(jobs) < MaxJobs
            /\ jobs' = Append(jobs, RunnerJob(name))
            /\ runners' = DictSet(runners, name, j)
            /\ IF target.pfx = "&"
               THEN IF AmpName(target) \notin DOMAIN routines
                    THEN /\ wk' = Append(wk, NoWorker)
                         /\ hist' = NewJobHist(<<>>)
                         /\ ret' = Returned("execute", raw, Err("Sub not found"))
                         /\ UNCHANGED runner_locks
                    ELSE /\ wk' = Append(wk, [NoWorker EXCEPT
                                    !.pc = "start",
                                    !.steps = routines[AmpName(target)],
                                    !.tok = AmpName(target)])
                         /\ runner_locks' = _lock_routine(AmpName(target), name, "running")
                         /\ hist' = NewJobHist(routines[AmpName(target)])
                         /\ ret' = Returned("execute", raw, Ok)
               ELSE \* the remaining tokens are one literal command line
                    /\ wk' = Append(wk, [NoWorker EXCEPT
                                    !.pc = "start", !.steps = <<rest>>])
                    /\ hist' = NewJobHist(<<rest>>)
                    /\ ret' = Returned("execute", raw, Ok)
                    /\ UNCHANGED runner_locks

LockState(name, state) ==
    [t \in DOMAIN runner_locks |->
        IF runner_locks[t].runner = name
        THEN [runner_locks[t] EXCEPT !.state = state]
        ELSE runner_locks[t]]

\* sys.pause %name, up to the test of job.status
PauseBegin(name) ==
    LET raw == <<W("pause"), Pct(name)>> IN
    /\ MayCall
    /\ CanEnter("repl")
    /\ UNCHANGED <<expand_max_passes, xp, routines, texts, tables, runners, jobs, wk, runner_locks, events,
                   event_latch, event_thread, poll>>
    /\ hist' = Called(hist)
    /\ IF name \notin DOMAIN runners
       THEN /\ ret' = Returned("execute", raw, Err("Runner not found"))
            /\ UNCHANGED <<repl, exec_lock>>
       ELSE IF jobs[runners[name]].status = "running"
       THEN /\ repl' = [pc |-> "pause_set", job |-> runners[name], raw |-> raw]
            /\ exec_lock' = "repl"
            /\ UNCHANGED ret
       ELSE IF jobs[runners[name]].status = "paused"
       THEN /\ repl' = [pc |-> "pause_clear", job |-> runners[name], raw |-> raw]
            /\ exec_lock' = "repl"
            /\ UNCHANGED ret
       ELSE /\ ret' = Returned("execute", raw, Err("pause only valid for running/paused"))
            /\ UNCHANGED <<repl, exec_lock>>

\* sys.pause %name, the writes of the branch taken
PauseSet ==
    /\ repl.pc = "pause_set"
    /\ jobs' = [jobs EXCEPT ![repl.job].status = "paused", ![repl.job].paused = TRUE]
    /\ runner_locks' = LockState(jobs[repl.job].name, "paused")
    /\ ret' = Returned("execute", repl.raw, Ok)
    /\ repl' = [pc |-> "idle", job |-> 0, raw |-> <<>>]
    /\ exec_lock' = "none"
    /\ UNCHANGED <<expand_max_passes, xp, routines, texts, tables, runners, wk, events, event_latch,
                   event_thread, poll, hist>>

PauseClear ==
    /\ repl.pc = "pause_clear"
    /\ jobs' = [jobs EXCEPT ![repl.job].status = "running", ![repl.job].paused = FALSE]
    /\ runner_locks' = LockState(jobs[repl.job].name, "running")
    /\ ret' = Returned("execute", repl.raw, Ok)
    /\ repl' = [pc |-> "idle", job |-> 0, raw |-> <<>>]
    /\ exec_lock' = "none"
    /\ UNCHANGED <<expand_max_passes, xp, routines, texts, tables, runners, wk, events, event_latch,
                   event_thread, poll, hist>>

\* sys.stop %name, up to the test of job.status
StopBegin(name) ==
    LET raw == <<W("stop"), Pct(name)>> IN
    /\ MayCall
    /\ CanEnter("repl")
    /\ UNCHANGED <<expand_max_passes, xp, routines, texts, tables, runners, jobs, wk, runner_locks, events,
                   event_latch, event_thread, poll>>
    /\ hist' = Called(hist)
    /\ IF name \notin DOMAIN runners
       THEN /\ ret' = Returned("execute", raw, Err("Runner not found"))
            /\ UNCHANGED <<repl, exec_lock>>
       ELSE IF jobs[runners[name]].status \in {"running", "paused"}
       THEN /\ repl' = [pc |-> "stop_set", job |-> runners[name], raw |-> raw]
            /\ exec_lock' = "repl"
            /\ UNCHANGED ret
       ELSE /\ ret' = Returned("execute", raw, Ok)
            /\ UNCHANGED <<repl, exec_lock>>

\* _wait_if_paused: the worker of job j is in the wait and its loop condition
\* (job.paused and not job.stop_requested) holds
BlockedInWait(j) ==
    wk[j].pc = "wait" /\ jobs[j].paused /\ ~jobs[j].stop_requested

\* sys.stop %name, the writes (history: the job's worker was blocked in the
\* pause wait when the flag was set)
StopSet ==
    /\ repl.pc = "stop_set"
    /\ jobs' = [jobs EXCEPT ![repl.job].stop_requested = TRUE,
                            ![repl.job].paused = FALSE]
    /\ ret' = Returned("execute", repl.raw, Ok)
    /\ repl' = [pc |-> "idle", job |-> 0, raw |-> <<>>]
    /\ exec_lock' = "none"
    /\ hist' = [hist EXCEPT !.woken = IF BlockedInWait(repl.job)
                                       THEN @ \cup {repl.job} ELSE @]
    /\ UNCHANGED <<expand_max_passes, xp, routines, texts, tables, runners, wk, runner_locks, events,
                   event_latch, event_thread, poll>>

(***************************************************************************)
(* The worker thread of job j: worker() and _run_steps_background.         *)
(* wk[j].pc is its position, wk[j].i the loop index, wk[j].steps the       *)
(* snapshot it was started with.                                           *)
(***************************************************************************)
Workers == 1 .. Len(jobs)

\* the live step list of the routine instead of the snapshot: what the
\* snapshot rule excludes
CurrentStepsLive(j) ==
    IF wk[j].tok \in DOMAIN routines THEN routines[wk[j].tok] ELSE wk[j].steps

\* the list the loop enumerates: the snapshot handed to the thread
CurrentSteps(j) == wk[j].steps

\* job.status = "running"
WStart(j) ==
    /\ wk[j].pc = "start"
    /\ jobs' = [jobs EXCEPT ![j].status = "running"]
    /\ wk' = [wk EXCEPT ![j].pc = "loop"]
    /\ UNCHANGED <<expand_max_passes, xp, routines, texts, tables, runners, runner_locks, events, event_latch,
                   event_thread, poll, exec_lock, repl, ret, hist>>

\* for i, step in enumerate(steps): job.step_i = i; first stop check
WLoop(j) ==
    /\ wk[j].pc = "loop"
    /\ IF wk[j].i >= Len(CurrentSteps(j))
       THEN /\ wk' = [wk EXCEPT ![j].pc = "done"]
            /\ UNCHANGED jobs
       ELSE IF jobs[j].stop_requested
       THEN /\ jobs' = [jobs EXCEPT ![j].step_i = wk[j].i, ![j].status = "stopped"]
            /\ wk' = [wk EXCEPT ![j].pc = "pulse", ![j].val = 3]
       ELSE /\ jobs' = [jobs EXCEPT ![j].step_i = wk[j].i]
            /\ wk' = [wk EXCEPT ![j].pc = "wait"]
    /\ UNCHANGED <<expand_max_passes, xp, routines, texts, tables, runners, runner_locks, events, event_latch,
                   event_thread, poll, exec_lock, repl, ret, hist>>

\* _wait_if_paused, then the second stop check
WWait(j) ==
    /\ wk[j].pc = "wait"
    /\ ~(jobs[j].paused /\ ~jobs[j].stop_requested)
    /\ IF jobs[j].stop_requested
       THEN /\ jobs' = [jobs EXCEPT ![j].status = "stopped"]
            /\ wk' = [wk EXCEPT ![j].pc = "pulse", ![j].val = 3]
       ELSE /\ wk' = [wk EXCEPT ![j].pc = "step"]
            /\ UNCHANGED jobs
    /\ UNCHANGED <<expand_max_passes, xp, routines, texts, tables, runners, runner_locks, events, event_latch,
                   event_thread, poll, exec_lock, repl, ret, hist>>

StepAt(j) ==
    IF wk[j].i < Len(CurrentSteps(j)) THEN CurrentSteps(j)[wk[j].i + 1] ELSE <<>>

\* history: the routine the job was started on no longer has the step list
\* the job was started with
Edited(j) ==
    /\ wk[j].tok # ""
    /\ (wk[j].tok \notin DOMAIN routines \/ routines[wk[j].tok] # hist.snap[j])

\* a loop that goes on whatever the step returned
StepNeverFailed(out) == FALSE

\* isinstance(out, str) and out.startswith("Error:")
StepFailed(out) == out.err

\* the body of the loop from step.strip() to the return of core.execute(step)
WStep(j) ==
    /\ wk[j].pc = "step"
    /\ UNCHANGED <<expand_max_passes, xp, runners, jobs, runner_locks, poll, exec_lock, repl, ret>>
    /\ IF StepAt(j) = <<>>
       THEN /\ wk' = [wk EXCEPT ![j].pc = "loop", ![j].i = @ + 1]
            /\ UNCHANGED <<routines, texts, tables, events, event_latch, event_thread, hist>>
       ELSE IF IsRunnerControl(StepAt(j))
       THEN /\ wk' = [wk EXCEPT ![j].pc = "fail",
                        ![j].err = "Runner cannot execute runner-control commands"]
            /\ UNCHANGED <<routines, texts, tables, events, event_latch, event_thread, hist>>
       ELSE /\ CanEnter("worker")
            /\ WithinBounds(StepAt(j))
            /\ Commit(execute(StepAt(j)))
            /\ hist' = [HistOn(hist, execute(StepAt(j))) EXCEPT
                          !.executed[j] = Append(@, [i |-> wk[j].i, step |-> StepAt(j),
                                                     edited |-> Edited(j)])]
            /\ IF StepFailed(execute(StepAt(j)).out)
               THEN wk' = [wk EXCEPT ![j].pc = "fail",
                                     ![j].err = execute(StepAt(j)).out.text]
               ELSE wk' = [wk EXCEPT ![j].pc = "loop", ![j].i = @ + 1]

\* except Exception: job.status = "failed"; job.last_error = str(e)
WFail(j) ==
    /\ wk[j].pc = "fail"
    /\ jobs' = [jobs EXCEPT ![j].status = "failed", ![j].last_error = wk[j].err]
    /\ wk' = [wk EXCEPT ![j].pc = "pulse", ![j].val = 2]
    /\ UNCHANGED <<expand_max_passes, xp, routines, texts, tables, runners, runner_locks, events, event_latch,
                   event_thread, poll, exec_lock, repl, ret, hist>>

\* job.status = "done"
WDone(j) ==
    /\ wk[j].pc = "done"
    /\ jobs' = [jobs EXCEPT ![j].status = "done"]
    /\ wk' = [wk EXCEPT ![j].pc = "pulse", ![j].val = 1]
    /\ UNCHANGED <<expand_max_passes, xp, routines, texts, tables, runners, runner_locks, events, event_latch,
                   event_thread, poll, exec_lock, repl, ret, hist>>

\* history: the bindings on this job's trigger and pulse value that are in the
\* list when the pulse begins, each with its number of invocations so far
Watching(j) ==
    {[id |-> events[k].id, n |-> hist.fired[events[k].id]] :
        k \in {x \in 1 .. Len(events) :
                  /\ events[x].symbol = PctTrg(jobs[j].name)
                  /\ events[x].value = wk[j].val}}

\* history: a binding watched since the pulse began is still in the list and
\* was not invoked exactly once during the pulse
Missed(j) ==
    \E w \in hist.watch[j] :
        /\ \E k \in 1 .. Len(events) : events[k].id = w.id
        /\ hist.fired[w.id] # w.n + 1

\* a pulse made inside execute: the worker holds the gate while it sleeps
GateTakenForPulse(j) == "worker"

\* _pulse is called by the worker thread outside core.execute: the pulse
\* leaves the gate as it is
GateInPulse(j) == exec_lock

\* _pulse: job.trg = int(value)
WPulseSet(j) ==
    /\ wk[j].pc = "pulse"
    /\ jobs' = [jobs EXCEPT ![j].trg = wk[j].val]
    /\ wk' = [wk EXCEPT ![j].pc = "sleep"]
    /\ exec_lock' = GateInPulse(j)
    /\ hist' = [hist EXCEPT !["age"][j] = 1, !["watch"][j] = Watching(j)]
    /\ UNCHANGED <<expand_max_passes, xp, routines, texts, tables, runners, runner_locks, events, event_latch,
                   event_thread, poll, repl, ret>>

\* _pulse: after time.sleep(PULSE_SEC), job.trg = 0
WPulseEnd(j) ==
    /\ wk[j].pc = "sleep"
    /\ jobs' = [jobs EXCEPT ![j].trg = 0]
    /\ wk' = [wk EXCEPT ![j].pc = "finally"]
    /\ hist' = [hist EXCEPT !["age"][j] = 0, !["watch"][j] = {},
                            !.missed = IF Missed(j) THEN @ \cup {j} ELSE @]
    /\ UNCHANGED <<expand_max_passes, xp, routines, texts, tables, runners, runner_locks, events, event_latch,
                   event_thread, poll, exec_lock, repl, ret>>

\* finally: job.paused = False; job._pause_evt.set()
WFinally(j) ==
    /\ wk[j].pc = "finally"
    /\ jobs' = [jobs EXCEPT ![j].paused = FALSE]
    /\ wk' = [wk EXCEPT ![j].pc = "unlock"]
    /\ UNCHANGED <<expand_max_passes, xp, routines, texts, tables, runners, runner_locks, events, event_latch,
                   event_thread, poll, exec_lock, repl, ret, hist>>

\* worker(): finally: if routine_tok: _unlock_routine(core, routine_tok)
WUnlock(j) ==
    /\ wk[j].pc = "unlock"
    /\ runner_locks' = IF wk[j].tok # "" THEN _unlock_routine(wk[j].tok)
                       ELSE runner_locks
    /\ wk' = [wk EXCEPT ![j] = [NoWorker EXCEPT !.pc = "exited", !.tok = wk[j].tok,
                                                !.val = wk[j].val]]
    /\ UNCHANGED <<expand_max_passes, xp, routines, texts, tables, runners, jobs, events, event_latch,
                   event_thread, poll, exec_lock, repl, ret, hist>>

(***************************************************************************)
(* The poller thread: _event_worker.                                       *)
(***************************************************************************)
RECURSIVE Watched(_, _)
\* the distinct symbols of the binding list, in insertion order
Watched(evs, acc) ==
    IF evs = <<>> THEN acc
    ELSE IF \E k \in 1 .. Len(acc) : acc[k] = evs[1].symbol
    THEN Watched(Tail(evs), acc)
    ELSE Watched(Tail(evs), Append(acc, evs[1].symbol))

\* a purge that keeps every binding: what the purge rule excludes
PurgeKeptAll(sym) == events

\* core.events = [e for e in core.events if e.get("symbol") != sym]
PurgeKept(sym) == SelectSeq(events, LAMBDA e : e.symbol # sym)

\* a latch left as it is when the symbol fires: what the one-shot rule excludes
LeftArmed(latch) == latch

\* latch["armed"] = False
Disarmed(latch) == [latch EXCEPT !.armed = FALSE]

\* a selection by symbol alone: what "and the value N" excludes
MatchesAnyValue(sym, val) == SelectSeq(events, LAMBDA e : e.symbol = sym)

\* matches = [e for e in core.events if symbol == sym and int(value) == val]
Matches(sym, val) == SelectSeq(events, LAMBDA e : e.symbol = sym /\ e.value = val)

\* a latch that is disarmed only when some binding has the value observed
LatchPerValue(latch, matches) == IF matches = <<>> THEN latch ELSE Disarmed(latch)

\* the latch is disarmed before the matches are collected, whatever they are
LatchOnFire(latch, matches) == Disarmed(latch)

PollIdle == [pc |-> "tick", symbols |-> <<>>, idx |-> 0, val |-> 0,
             matches |-> <<>>, kept |-> <<>>]

Aged(from, to) ==
    [hist EXCEPT !.age = [j \in DOMAIN hist.age |->
                            IF hist.age[j] = from THEN to ELSE hist.age[j]]]

\* the top of the while loop: collect the watched symbols
PTick ==
    /\ event_thread
    /\ poll.pc = "tick"
    /\ poll' = [PollIdle EXCEPT !.pc = "scan", !.symbols = Watched(events, <<>>),
                                !.idx = 1]
    /\ hist' = Aged(1, 2)
    /\ UNCHANGED <<expand_max_passes, xp, routines, texts, tables, runners, jobs, wk, runner_locks, events,
                   event_latch, event_thread, exec_lock, repl, ret>>

\* for sym in symbols: resolve, then the latch; after the last one, sleep(TICK)
PScan ==
    /\ poll.pc = "scan"
    /\ UNCHANGED <<expand_max_passes, xp, routines, texts, tables, runners, jobs, wk, runner_locks, events,
                   event_thread, exec_lock, repl, ret>>
    /\ IF poll.idx > Len(poll.symbols)
       THEN /\ poll' = PollIdle
            /\ hist' = Aged(2, 3)
            /\ UNCHANGED event_latch
       ELSE LET sym == poll.symbols[poll.idx]
                val == _resolve_trg_int(sym)
                latch == IF sym \in DOMAIN event_latch THEN event_latch[sym]
                         ELSE [armed |-> TRUE]
            IN IF val = 3
               THEN /\ poll' = [poll EXCEPT !.pc = "purge", !.val = val,
                                            !.kept = PurgeKept(sym)]
                    /\ UNCHANGED <<event_latch, hist>>
               ELSE IF val = 0
               THEN /\ event_latch' = DictSet(event_latch, sym, [latch EXCEPT !.armed = TRUE])
                    /\ poll' = [poll EXCEPT !.idx = @ + 1, !.val = val]
                    /\ hist' = [hist EXCEPT !.hot = {h \in @ : h.symbol # sym}]
               ELSE IF ~latch.armed
               THEN /\ event_latch' = DictSet(event_latch, sym, latch)
                    /\ poll' = [poll EXCEPT !.idx = @ + 1, !.val = val]
                    /\ UNCHANGED hist
               ELSE /\ event_latch' = DictSet(event_latch, sym, LatchOnFire(latch, Matches(sym, val)))
                    /\ poll' = [poll EXCEPT !.pc = "fire", !.val = val,
                                            !.matches = Matches(sym, val)]
                    /\ UNCHANGED hist

\* the purge: core.events = <the list built>; core.event_latch.pop(sym, None)
PPurge ==
    /\ poll.pc = "purge"
    /\ events' = poll.kept
    /\ event_latch' = DictDel(event_latch, poll.symbols[poll.idx])
    /\ poll' = [poll EXCEPT !.pc = "scan", !.idx = @ + 1, !.kept = <<>>]
    /\ UNCHANGED <<expand_max_passes, xp, routines, texts, tables, runners, jobs, wk, runner_locks,
                   event_thread, exec_lock, repl, ret, hist>>

\* for e in matches: core.execute(" ".join(cmd_parts))
PFire ==
    /\ poll.pc = "fire"
    /\ UNCHANGED <<expand_max_passes, xp, runners, jobs, wk, runner_locks, exec_lock, repl, ret>>
    /\ IF poll.matches = <<>>
       THEN /\ poll' = [poll EXCEPT !.pc = "scan", !.idx = @ + 1]
            /\ UNCHANGED <<routines, texts, tables, events, event_latch, event_thread, hist>>
       ELSE LET e == poll.matches[1] IN
            IF e.command = <<>> \/ IsRunnerControl(e.command)
            THEN /\ poll' = [poll EXCEPT !.matches = Tail(@)]
                 /\ UNCHANGED <<routines, texts, tables, events, event_latch, event_thread, hist>>
            ELSE /\ CanEnter("poller")
                 /\ WithinBounds(e.command)
                 /\ Commit(execute(e.command))
                 /\ poll' = [poll EXCEPT !.matches = Tail(@)]
                 /\ hist' = [HistOn(hist, execute(e.command)) EXCEPT
                               !.fired[e.id] = @ + 1,
                               !.hot = @ \cup {[id |-> e.id, symbol |-> e.symbol]}]

(***************************************************************************)
(* The system.                                                             *)
(***************************************************************************)
Next ==
    \/ \E raw \in StoreLines \cup EventLines : Execute(raw)
    \/ \E sym \in OnSymbols, n \in OnValues, cmd \in Cmds :
          DispatchInternal(<<W("sys.ev.on"), sym, Num(n)>> \o cmd)
    \/ \E name \in RunnerNames, rest \in RunTargets : Run(name, rest)
    \/ \E name \in RunnerNames : PauseBegin(name)
    \/ PauseSet
    \/ PauseClear
    \/ \E name \in RunnerNames : StopBegin(name)
    \/ StopSet
    \/ \E j \in Workers : WStart(j)
    \/ \E j \in Workers : WLoop(j)
    \/ \E j \in Workers : WWait(j)
    \/ \E j \in Workers : WStep(j)
    \/ \E j \in Workers : WFail(j)
    \/ \E j \in Workers : WDone(j)
    \/ \E j \in Workers : WPulseSet(j)
    \/ \E j \in Workers : WPulseEnd(j)
    \/ \E j \in Workers : WFinally(j)
    \/ \E j \in Workers : WUnlock(j)
    \/ PTick
    \/ PScan
    \/ PPurge
    \/ PFire

Spec == Init /\ [][Next]_vars

(***************************************************************************)
(* The same system with the timing of the two sleeps: a pulse lasts        *)
(* PULSE_SEC = 100 ms and the poller sleeps TICK = 50 ms between two       *)
(* scans, so a pulse does not end before a scan that began after the pulse *)
(* was set has run to its end.                                             *)
(***************************************************************************)
PulseOutlastsTick ==
    \A j \in Workers :
        (wk[j].pc = "sleep" /\ wk'[j].pc = "finally")
            => (~event_thread \/ hist.age[j] = 3)

NextTimed == Next /\ PulseOutlastsTick

SpecTimed == Init /\ [][NextTimed]_vars

(***************************************************************************)
(* The surface alone: one calling thread issues store lines (mk, add.item, *)
(* cat, cp, mv on $, & and # targets) through Core.execute, on a core      *)
(* whose config/core.json may have set expand_max_passes.                  *)
(***************************************************************************)
Hash(segs) == Tok("#", segs, "")
Dollar(segs) == Tok("$", segs, "")
AmpAt(n, i) == Tok("&", <<n, IntStr(i)>>, "")

HashTargets == {Hash(<<"a">>), Hash(<<"b">>), Hash(<<"a", "b">>)}
DollarTargets == {Dollar(<<"s">>), Dollar(<<"s", "k">>), Dollar(<<"t">>),
                  Dollar(<<"t", "k">>)}
AmpTargets == {Amp("r"), AmpAt("r", 0), AmpAt("r", 1), Amp("q")}
Targets == HashTargets \cup DollarTargets \cup AmpTargets

\* tokens that name nothing: "#", "$", "&", a bare word, a runner trigger
Malformed == {Tok("#", <<"">>, ""), Tok("$", <<"">>, ""), Tok("&", <<"">>, ""),
              W("x"), PctTrg("a")}

Words == {W("v"), W("w")}

CpLines == {<<W("cp"), x, y>> : x \in Targets, y \in Targets}
MvLines == {<<W("mv"), x, y>> : x \in Targets, y \in Targets}
              \cup {<<W("mv"), x, x>> : x \in Malformed}

\* the lines that fill the stores
SetupLines ==
    {<<W("mk"), x>> : x \in HashTargets \cup {Dollar(<<"s">>), Amp("r")}}
    \cup {<<W("add.item"), x, w>> :
             x \in HashTargets \cup {Dollar(<<"s", "k">>), Amp("r")}, w \in Words}
    \cup {<<W("add.item"), Dollar(<<"s">>), W("k")>>}
    \cup {<<W("cat"), x>> : x \in {Hash(<<"a">>), Dollar(<<"s", "k">>)}}

NextCp == \E raw \in SetupLines \cup CpLines : Execute(raw)

SpecCp == Init /\ [][NextCp]_vars

NextMv == \E raw \in SetupLines \cup MvLines : Execute(raw)

SpecMv == Init /\ [][NextMv]_vars

(***************************************************************************)
(* Core.execute alone, on a core whose config/core.json may have set       *)
(* expand_max_passes: lines that succeed, lines whose handler raises (a    *)
(* wrong number of arguments included), lines the gate refuses, lines a    *)
(* small pass bound stops in expansion.                                    *)
(***************************************************************************)
ExecLines ==
    {<<W("mk"), Amp("r")>>, <<W("mk")>>, <<W("rm"), Amp("r")>>,
     <<W("add.item"), Amp("r"), W("v")>>, <<W("add.item"), Dollar(<<"s">>)>>,
     <<W("cat"), Dollar(<<"s", "k">>)>>, <<W("cp"), Hash(<<"a">>)>>,
     <<W("mv"), Amp("r"), Amp("q")>>, <<W("mv"), AmpAt("r", 0), AmpAt("r", 1)>>,
     <<W("cat"), PctTrg("a")>>, <<W("x")>>,
     LineInternal, SingleShot(LineInternal), SingleShot(<<W("rm"), Amp("r")>>),
     SingleShot(<<W("mk"), Amp("r")>>)}

\* expand_max_passes as config/core.json may set it
ConfiguredPasses == {1, 2, DEFAULT_MAX_PASSES}

InitExec == \E m \in ConfiguredPasses : InitWith(m, XIdle)

NextExec == \E raw \in ExecLines : Execute(raw)

SpecExec == InitExec /\ [][NextExec]_vars

(***************************************************************************)
(* Core._expand pass by pass, over any list of expanders.  A token         *)
(* sequence is one of ExpLines; an expander is a function on them that     *)
(* returns its argument when it has nothing to rewrite.  xp.done is the    *)
(* history of the sequences the passes processed.                          *)
(***************************************************************************)
MaxExpanders == 2      \* expanders registered
MaxPassBound == 4      \* the largest expand_max_passes tried

ExpLines == {"x", "y", "z"}
Expanders == [ExpLines -> ExpLines]
ExpanderLists ==
    UNION {[1 .. n -> Expanders] : n \in 0 .. MaxExpanders}

\* the call _expand(parts) on a core with these expanders and this bound
XStart(exps, max, parts) ==
    [pc |-> "loop", exps |-> exps, max |-> max, parts |-> parts, seen |-> {},
     pass |-> 0, done |-> <<>>, out |-> ""]

InitExpand ==
    \E exps \in ExpanderLists, max \in 0 .. MaxPassBound, parts \in ExpLines :
        InitWith(DEFAULT_MAX_PASSES, XStart(exps, max, parts))

coreVars == <<routines, texts, tables, expand_max_passes, runners, jobs, wk,
              runner_locks, events, event_latch, event_thread, poll, exec_lock,
              repl, ret, hist>>

\* a guard that never finds the sequence: what the cycle guard excludes
NeverSeen(sig, seen) == FALSE

\* if sig in seen
AlreadySeen(sig, seen) == sig \in seen

\* the expanders that change the sequence, by position
Changing(exps, parts) == {k \in 1 .. Len(exps) : exps[k][parts] # parts}

\* for ex in self.expanders: ... break  (the first that changes it)
FirstChanging(exps, parts) ==
    CHOOSE k \in Changing(exps, parts) : \A m \in Changing(exps, parts) : k <= m

\* for _ in range(max): the range is exhausted
XExhausted ==
    /\ xp.pc = "loop"
    /\ xp.pass >= xp.max
    /\ xp' = [xp EXCEPT !.pc = "raised", !.out = "Expansion depth exceeded"]
    /\ UNCHANGED coreVars

\* if sig in seen: raise ValueError("Expansion loop detected")
XLoopDetected ==
    /\ xp.pc = "loop"
    /\ xp.pass < xp.max
    /\ AlreadySeen(xp.parts, xp.seen)
    /\ xp' = [xp EXCEPT !.pc = "raised", !.out = "Expansion loop detected"]
    /\ UNCHANGED coreVars

\* a pass in which an expander changes the sequence
XRewrite ==
    /\ xp.pc = "loop"
    /\ xp.pass < xp.max
    /\ ~AlreadySeen(xp.parts, xp.seen)
    /\ Changing(xp.exps, xp.parts) # {}
    /\ xp' = [xp EXCEPT
                !.seen = @ \cup {xp.parts},
                !.done = Append(@, xp.parts),
                !.parts = xp.exps[FirstChanging(xp.exps, xp.parts)][xp.parts],
                !.pass = @ + 1]
    /\ UNCHANGED coreVars

\* a pass in which no expander changes the sequence: return parts
XReturn ==
    /\ xp.pc = "loop"
    /\ xp.pass < xp.max
    /\ ~AlreadySeen(xp.parts, xp.seen)
    /\ Changing(xp.exps, xp.parts) = {}
    /\ xp' = [xp EXCEPT !.pc = "returned", !.seen = @ \cup {xp.parts},
                        !.done = Append(@, xp.parts)]
    /\ UNCHANGED coreVars

NextExpand == XExhausted \/ XLoopDetected \/ XRewrite \/ XReturn

SpecExpand == InitExpand /\ [][NextExpand]_vars

(***************************************************************************)
(* Trigger symbols: a runner that ends and pulses, stores filled by        *)
(* import.many and by store lines, and _resolve_trg_int applied to a       *)
(* symbol as the poller applies it to each watched symbol.                 *)
(***************************************************************************)
HashTrg(segs) == Tok("#", segs, ".trg")
DollarTrg(segs) == Tok("$", segs, ".trg")

RunnerSymbols == {PctTrg("a"), PctTrg("b")}
TextSymbols == {DollarTrg(<<"s", "x">>), DollarTrg(<<"s", "y">>), DollarTrg(<<"t", "x">>)}
TableSymbols == {HashTrg(<<"a", "x">>)}
TrgSymbols == RunnerSymbols \cup TextSymbols

TrgLines ==
    {<<W("import.many"), W(d), Hash(<<"a">>)>> : d \in {"d2", "dv"}} \cup
    {<<W("cp"), Hash(<<"a">>), Dollar(<<"s">>)>>,
     <<W("add.item"), Dollar(<<"s">>), Tok("", <<"x">>, ".trg")>>}

TrgRuns == {StepLs, StepErr}

\* _resolve_trg_int(core, sym): the sequence _expand returns and the integer
Resolve(sym) ==
    /\ ret' = [via |-> "_resolve_trg_int", out |-> Plain(IntStr(_resolve_trg_int(sym))),
               sym |-> sym, parts |-> _expand(<<sym>>).parts,
               val |-> _resolve_trg_int(sym)]
    /\ UNCHANGED <<routines, texts, tables, expand_max_passes, xp, runners, jobs, wk,
                   runner_locks, events, event_latch, event_thread, poll, exec_lock,
                   repl, hist>>

NextTrg ==
    \/ \E raw \in TrgLines : Execute(raw)
    \/ \E rest \in TrgRuns : Run("a", rest)
    \/ \E j \in Workers : WStart(j)
    \/ \E j \in Workers : WLoop(j)
    \/ \E j \in Workers : WWait(j)
    \/ \E j \in Workers : WStep(j)
    \/ \E j \in Workers : WFail(j)
    \/ \E j \in Workers : WDone(j)
    \/ \E j \in Workers : WPulseSet(j)
    \/ \E j \in Workers : WPulseEnd(j)
    \/ \E j \in Workers : WFinally(j)
    \/ \E j \in Workers : WUnlock(j)
    \/ \E sym \in TrgSymbols : Resolve(sym)

SpecTrg == Init /\ [][NextTrg]_vars

\* the tree alone: every directory imported, leaves and nodes made and removed
TableLines ==
    {<<W("import.many"), W(d), Hash(<<"a">>)>> : d \in DOMAIN Dirs} \cup
    {<<W("import.many"), W("d2"), Hash(<<"a", "x">>)>>,
     <<W("add.item"), Hash(<<"a", "b">>), W("v")>>,
     <<W("mk"), Hash(<<"a">>)>>, <<W("rm"), Hash(<<"a">>)>>}

NextTableTrg ==
    \/ \E raw \in TableLines : Execute(raw)
    \/ \E sym \in TableSymbols : Resolve(sym)

SpecTableTrg == Init /\ [][NextTableTrg]_vars

(***************************************************************************)
(* The binding list alone: ON lines that are accepted and ON lines that    *)
(* are refused, ON.reset, and the poller scanning symbols that stay at 0.  *)
(***************************************************************************)
MaxOnBindings == 3     \* successful ON calls in one behaviour of SpecOn

YTrg == Tok("", <<"y">>, ".trg")
StarTrg == Tok("", <<"*">>, ".trg")

GoodOnLines ==
    {OnLine(XTrg, 1, CmdLog), OnLine(XTrg, 2, CmdLog), OnLine(YTrg, 1, CmdLog)}

ControlCmds == {<<W(c), Pct("a")>> : c \in {"run", "status", "pause", "stop"}}

BadOnLines ==
    {OnLine(XTrg, 0, CmdLog), OnLine(XTrg, 3, CmdLog),
     <<W("ON"), XTrg, W("v")>> \o CmdLog,
     <<W("ON"), W("x"), Num(1)>> \o CmdLog,
     <<W("ON"), XTrg, Num(1)>>}
    \cup {OnLine(XTrg, 1, c) : c \in ControlCmds}

ResetLines == {<<W("ON.reset"), pat>> : pat \in {XTrg, YTrg, StarTrg, W("x")}}

InitOn == InitFull(DEFAULT_MAX_PASSES, XIdle, MaxOnBindings)

NextOn ==
    \/ \E raw \in GoodOnLines \cup BadOnLines \cup ResetLines : Execute(raw)
    \/ \E raw \in BadOnLines : DispatchInternal(<<W("sys.ev.on")>> \o Tail(raw))
    \/ PTick
    \/ PScan

SpecOn == InitOn /\ [][NextOn]_vars

(***************************************************************************)
(* A runner on a routine: the REPL fills the routine and starts the        *)
(* runner, the worker goes through the snapshot.                           *)
(***************************************************************************)
StepWrapped == <<W("run"), W("status"), Pct("a")>>   \* single-shot run of "status %a"
StepUnknown == LineInternal                         \* returns "Unknown command"
RoutineSteps == {StepLs, StepErr, StepCtl, StepWrapped, StepUnknown}

StepLines ==
    {<<W("mk"), Amp("r")>>} \cup {<<W("add.item"), Amp("r")>> \o st : st \in RoutineSteps}

NextSteps ==
    \/ \E raw \in StepLines : Execute(raw)
    \/ Run("a", <<Amp("r")>>)
    \/ \E j \in Workers : WStart(j)
    \/ \E j \in Workers : WLoop(j)
    \/ \E j \in Workers : WWait(j)
    \/ \E j \in Workers : WStep(j)
    \/ \E j \in Workers : WFail(j)
    \/ \E j \in Workers : WDone(j)
    \/ \E j \in Workers : WPulseSet(j)
    \/ \E j \in Workers : WPulseEnd(j)
    \/ \E j \in Workers : WFinally(j)
    \/ \E j \in Workers : WUnlock(j)

SpecSteps == Init /\ [][NextSteps]_vars

(***************************************************************************)
(* Bindings on the trigger of runner a, the runner and the poller.         *)
(***************************************************************************)
MaxPollBindings == 2
CmdWrapped == <<W("run"), W("status"), Pct("a")>>   \* single-shot run of "status %a"
PollOns == {<<Num(1)>> \o CmdLog, <<Num(2)>> \o CmdLog, <<Num(2)>> \o CmdWrapped}
PollRuns == {StepLs, StepErr}        \* the job ends with a pulse of 1, of 2

InitPoll == InitFull(DEFAULT_MAX_PASSES, XIdle, MaxPollBindings)

NextPoll ==
    \/ \E b \in PollOns : DispatchInternal(<<W("sys.ev.on"), PctTrg("a")>> \o b)
    \/ \E rest \in PollRuns : Run("a", rest)
    \/ \E j \in Workers : WStart(j)
    \/ \E j \in Workers : WLoop(j)
    \/ \E j \in Workers : WWait(j)
    \/ \E j \in Workers : WStep(j)
    \/ \E j \in Workers : WFail(j)
    \/ \E j \in Workers : WDone(j)
    \/ \E j \in Workers : WPulseSet(j)
    \/ \E j \in Workers : WPulseEnd(j)
    \/ \E j \in Workers : WFinally(j)
    \/ \E j \in Workers : WUnlock(j)
    \/ PTick
    \/ PScan
    \/ PFire

SpecPoll == InitPoll /\ [][NextPoll]_vars

(***************************************************************************)
(* A stop pulse (3) on runner a while the calling thread binds x.trg.      *)
(***************************************************************************)
MaxPurgeBindings == 2

InitPurge == InitFull(DEFAULT_MAX_PASSES, XIdle, MaxPurgeBindings)

NextPurge ==
    \/ DispatchInternal(<<W("sys.ev.on"), PctTrg("a"), Num(1)>> \o CmdLog)
    \/ Execute(OnLine(XTrg, 1, CmdLog))
    \/ Run("a", StepLs)
    \/ StopBegin("a")
    \/ StopSet
    \/ \E j \in Workers : WStart(j)
    \/ \E j \in Workers : WLoop(j)
    \/ \E j \in Workers : WWait(j)
    \/ \E j \in Workers : WStep(j)
    \/ \E j \in Workers : WDone(j)
    \/ \E j \in Workers : WPulseSet(j)
    \/ \E j \in Workers : WPulseEnd(j)
    \/ \E j \in Workers : WFinally(j)
    \/ \E j \in Workers : WUnlock(j)
    \/ PTick
    \/ PScan
    \/ PPurge
    \/ PFire

SpecPurge == InitPurge /\ [][NextPurge]_vars

(***************************************************************************)
(* Core.execute of the calling thread in steps: the thread takes exec_lock,*)
(* the handler of a single-shot run calls core.execute again on the same   *)
(* thread, and every frame gives the lock back on its way out.  repl.job   *)
(* is the number of frames of execute the thread is in, repl.raw the line  *)
(* of the innermost one.  The worker and the poller wait for the lock in   *)
(* WStep and PFire.                                                        *)
(***************************************************************************)
MaxGateJobs == 1
GateLines == {StepLs, SingleShot(SingleShot(StepLs))}

\* the handler of the innermost frame is the single-shot run
Nests(raw) ==
    /\ raw # <<>> /\ Gate(raw[1]) /\ _expand(raw).err = ""
    /\ IsSingleShot(_expand(raw).parts)

\* execute(raw): with self.exec_lock
GEnter(raw) ==
    /\ MayCall
    /\ CanEnter("repl")
    /\ repl' = [pc |-> "handler", job |-> 1, raw |-> raw]
    /\ exec_lock' = "repl"
    /\ hist' = Called(hist)
    /\ UNCHANGED <<expand_max_passes, xp, routines, texts, tables, runners, jobs, wk, runner_locks,
                   events, event_latch, event_thread, poll, ret>>

\* run <cmd...>: return core.execute(cmdline), on the thread that holds the lock
GNest ==
    /\ repl.pc = "handler"
    /\ Nests(repl.raw)
    /\ CanEnter("repl")
    /\ repl' = [repl EXCEPT !.raw = Tail(_expand(repl.raw).parts), !.job = @ + 1]
    /\ UNCHANGED <<expand_max_passes, xp, routines, texts, tables, runners, jobs, wk, runner_locks,
                   events, event_latch, event_thread, poll, exec_lock, ret, hist>>

\* the innermost frame: the gate, the expansion, the handler, the value
GReturn ==
    /\ repl.pc = "handler"
    /\ ~Nests(repl.raw)
    /\ Commit(execute(repl.raw))
    /\ hist' = HistOn(hist, execute(repl.raw))
    /\ ret' = Returned("execute", repl.raw, execute(repl.raw).out)
    /\ repl' = [repl EXCEPT !.pc = "return"]
    /\ UNCHANGED <<expand_max_passes, xp, runners, jobs, wk, runner_locks, poll, exec_lock>>

\* a frame leaves "with self.exec_lock"; the outermost one frees the lock
GUnwind ==
    /\ repl.pc = "return"
    /\ IF repl.job > 1
       THEN /\ repl' = [repl EXCEPT !.job = @ - 1]
            /\ UNCHANGED exec_lock
       ELSE /\ repl' = [pc |-> "idle", job |-> 0, raw |-> <<>>]
            /\ exec_lock' = "none"
    /\ UNCHANGED <<expand_max_passes, xp, routines, texts, tables, runners, jobs, wk, runner_locks,
                   events, event_latch, event_thread, poll, ret, hist>>

\* the steps of the worker thread of job j outside core.execute
WorkerMoves(j) ==
    \/ WStart(j) \/ WLoop(j) \/ WWait(j) \/ WFail(j) \/ WDone(j)
    \/ WPulseSet(j) \/ WPulseEnd(j) \/ WFinally(j) \/ WUnlock(j)

NextGate ==
    \/ \E raw \in GateLines : GEnter(raw)
    \/ GNest
    \/ GReturn
    \/ GUnwind
    \/ DispatchInternal(<<W("sys.ev.on"), PctTrg("a"), Num(1)>> \o CmdLog)
    \/ Len(jobs) < MaxGateJobs /\ Run("a", StepLs)
    \/ \E j \in Workers : WorkerMoves(j)
    \/ \E j \in Workers : WStep(j)
    \/ PTick
    \/ PScan
    \/ PFire

SpecGate == Init /\ [][NextGate]_vars

\* what WStep(j) does to the worker: the step is empty or refused, or the
\* worker has the lock and core.execute(step) returns
WStepTaken(j) ==
    /\ wk[j].pc = "step"
    /\ IF StepAt(j) = <<>>
       THEN wk' = [wk EXCEPT ![j].pc = "loop", ![j].i = @ + 1]
       ELSE IF IsRunnerControl(StepAt(j))
       THEN wk' = [wk EXCEPT ![j].pc = "fail",
                     ![j].err = "Runner cannot execute runner-control commands"]
       ELSE /\ CanEnter("worker")
            /\ WithinBounds(StepAt(j))
            /\ IF StepFailed(execute(StepAt(j)).out)
               THEN wk' = [wk EXCEPT ![j].pc = "fail",
                                     ![j].err = execute(StepAt(j)).out.text]
               ELSE wk' = [wk EXCEPT ![j].pc = "loop", ![j].i = @ + 1]

\* what PFire does to the poller: the list is done, the binding at its head
\* is skipped, or the poller has the lock and core.execute returns
PFireTaken ==
    /\ poll.pc = "fire"
    /\ IF poll.matches = <<>>
       THEN poll' = [poll EXCEPT !.pc = "scan", !.idx = @ + 1]
       ELSE /\ \/ poll.matches[1].command = <<>>
               \/ IsRunnerControl(poll.matches[1].command)
               \/ CanEnter("poller") /\ WithinBounds(poll.matches[1].command)
            /\ poll' = [poll EXCEPT !.matches = Tail(@)]

\* what PScan does to the poller when the symbol it looks at resolves to v
ScanTo(v) ==
    IF poll.idx > Len(poll.symbols) THEN PollIdle
    ELSE LET sym == poll.symbols[poll.idx] IN
         IF v = 3
         THEN [poll EXCEPT !.pc = "purge", !.val = v, !.kept = PurgeKept(sym)]
         ELSE IF v = 0 \/ (sym \in DOMAIN event_latch /\ ~event_latch[sym].armed)
         THEN [poll EXCEPT !.idx = @ + 1, !.val = v]
         ELSE [poll EXCEPT !.pc = "fire", !.val = v, !.matches = Matches(sym, v)]

\* a scan step of the poller, for any value a trigger can have
PScanTaken == poll.pc = "scan" /\ \E v \in 0 .. 3 : poll' = ScanTo(v)

\* what GReturn does to the calling thread
GReturnTaken ==
    /\ repl.pc = "handler"
    /\ ~Nests(repl.raw)
    /\ repl' = [repl EXCEPT !.pc = "return"]

\* every thread that can take a step takes one in the end; a thread that
\* waits for exec_lock gets it when the lock is free again and again
SpecGateFair ==
    /\ SpecGate
    /\ WF_repl(GNest \/ GReturnTaken \/ GUnwind)
    /\ \A j \in 1 .. MaxJobs : WF_vars(j \in Workers /\ WorkerMoves(j))
    /\ \A j \in 1 .. MaxJobs : SF_wk(j \in Workers /\ WStepTaken(j))
    /\ WF_poll(PTick \/ PScanTaken)
    /\ SF_poll(PFireTaken)

(***************************************************************************)
(* Shorthands for the claims.                                              *)
(***************************************************************************)
Terminal == {"done", "failed", "stopped"}
Exited(j) == wk[j].pc = "exited"
Locked(r) == r \in DOMAIN runner_locks
StepsOfRoutine(r) == IF r \in DOMAIN routines THEN routines[r] ELSE <<"absent">>

\* the surface lines of the model that mutate routine &r
MutatingLines(r) ==
    {<<W("rm"), Amp(r)>>} \cup {<<W("add.item"), Amp(r)>> \o s : s \in Steps}

\* C1: while a lock record exists for routine &R, every surface line through
\* execute that would mutate &R (rm &R, add.item &R ...) returns an error and
\* leaves the step list and the name of &R unchanged
C1_LockedRoutineRefusesMutation ==
    [][\A r \in RoutineNames : \A raw \in MutatingLines(r) :
          (Locked(r) /\ Execute(raw))
             => /\ execute(raw).out.err
                /\ StepsOfRoutine(r)' = StepsOfRoutine(r)]_vars

\* C2: execute("ON <sym> <N> <cmd...>") with sym ending in .trg, N not 0 or 3
\* and cmd no runner control returns "OK" and appends exactly the binding
\* {symbol: sym as typed, value: N, command: cmd}
C2_OnAppendsBinding ==
    [][\A sym \in OnSymbols, n \in OnValues \ {3}, cmd \in Cmds :
          Execute(OnLine(sym, n, cmd))
             => /\ execute(OnLine(sym, n, cmd)).out = Ok
                /\ Len(events') = Len(events) + 1
                /\ events'[Len(events')].symbol = sym
                /\ events'[Len(events')].value = n
                /\ events'[Len(events')].command = cmd]_vars

\* the invocations of binding id grew in this step
Invoked(id) == hist'.fired[id] > hist.fired[id]

C4_PulseFiresOnce == hist.missed = {}

\* C5: when the poller resolves a watched symbol S to 3 it invokes no command,
\* and when it has handled S no binding with symbol S and no latch entry for S
\* remains; no command is invoked on an observed value of 3 (or 0)
C5_PurgeOnly ==
    [][/\ (poll.pc = "purge" /\ poll'.pc # "purge")
            => /\ \A k \in 1 .. Len(events') :
                     events'[k].symbol # poll.symbols[poll.idx]
               /\ poll.symbols[poll.idx] \notin DOMAIN event_latch'
               /\ hist'.fired = hist.fired
       /\ \A id \in DOMAIN hist.fired : Invoked(id) => poll.val \notin {0, 3}
       /\ \A k \in 1 .. Len(events') : events'[k].value # 3]_vars

\* the stop pulse of a runner is on and the poller has purged the binding that
\* was bound to its trigger, without any invocation
C5_Witness ==
    /\ poll.pc = "scan" /\ poll.idx = 2 /\ poll.val = 3
    /\ poll.symbols = <<PctTrg("a")>>
    /\ events = <<>> /\ event_latch = <<>>
    /\ hist.onCount = 1 /\ hist.fired = <<0>>
    /\ \E j \in Workers : jobs[j].status = "stopped" /\ jobs[j].trg = 3

\* the worker of job j has been started and has not written a terminal status
BeforeTerminal(j) == wk[j].pc \in {"start", "loop", "wait", "step", "fail", "done"}

\* C6: for every runner name at most one worker is executing steps at any
\* time: a run %name issued while a started job of that name has not reached a
\* terminal status starts no second worker
C6_OneWorkerPerName ==
    \A j1, j2 \in Workers :
        (j1 # j2 /\ jobs[j1].name = jobs[j2].name)
            => ~(BeforeTerminal(j1) /\ BeforeTerminal(j2))

\* C7: once the worker of a job has exited the job's status is one of done,
\* failed, stopped (so that a later run %name is accepted)
C7_TerminalAfterExit ==
    \A j \in Workers : Exited(j) => jobs[j].status \in Terminal

\* C8: a job whose worker is gone and that is not paused is in a terminal
\* status with its trigger at 0, and a job of n >= 1 steps that sent the
\* success pulse reads "done step=<n-1> err= trg=0"
C8_EndsTerminal ==
    \A j \in Workers :
        Exited(j) =>
            /\ jobs[j].status # "paused"
                  => (jobs[j].status \in Terminal /\ jobs[j].trg = 0)
            /\ (wk[j].val = 1 /\ Len(hist.snap[j]) >= 1)
                  => /\ jobs[j].status = "done"
                     /\ jobs[j].step_i = Len(hist.snap[j]) - 1
                     /\ jobs[j].last_error = "None"
                     /\ jobs[j].trg = 0

\* C9: for every job record trg is in 0..3, trg is 1 only in status done, 2
\* only in failed, 3 only in stopped, and trg is 0 once the worker has exited
C9_TriggerMatchesStatus ==
    \A j \in Workers :
        /\ jobs[j].trg \in 0 .. 3
        /\ jobs[j].trg = 1 => jobs[j].status = "done"
        /\ jobs[j].trg = 2 => jobs[j].status = "failed"
        /\ jobs[j].trg = 3 => jobs[j].status = "stopped"
        /\ Exited(j) => jobs[j].trg = 0

\* the steps of list steps from index i on (0-based) that are not empty, each
\* with its index
RECURSIVE NonEmptyFrom(_, _)
NonEmptyFrom(steps, i) ==
    IF i >= Len(steps) THEN <<>>
    ELSE IF steps[i + 1] = <<>> THEN NonEmptyFrom(steps, i + 1)
    ELSE <<[i |-> i, step |-> steps[i + 1]]>> \o NonEmptyFrom(steps, i + 1)

StepBegins(j) == Len(hist'.executed[j]) > Len(hist.executed[j])

\* C11: once stop %name has set the flag on a job that is not yet terminal,
\* the terminal status the job gets is stopped and the pulse it sends is 3,
\* and the job passes no further step to execute
C11_StopEndsStopped ==
    [][\A j \in Workers :
          jobs[j].stop_requested =>
              /\ (jobs[j].status \notin Terminal /\ jobs'[j].status \in Terminal)
                    => (jobs'[j].status = "stopped" /\ wk'[j].val = 3)
              /\ ~StepBegins(j)]_vars

\* C12: a worker that was blocked in the pause wait when stop %name set the
\* flag passes no further step to execute, sends no pulse other than 3, and
\* has terminated with status stopped
C12_StopWakesPausedWorker ==
    [][\A j \in hist.woken :
          /\ ~StepBegins(j)
          /\ jobs'[j].trg \in {0, 3}
          /\ wk'[j].pc = "exited" => jobs'[j].status = "stopped"]_vars

\* C13: the worker of a job passes no step to execute while the job is paused
\* (pause %name has returned OK on the running job and neither a second pause
\* nor a stop has followed)
C13_NoStepWhilePaused ==
    [][\A j \in Workers :
          StepBegins(j) =>
              ~(jobs[j].status = "paused" /\ jobs[j].paused
                   /\ ~jobs[j].stop_requested)]_vars

\* job j was started on a routine target (&R): the routine it snapshotted
OnRoutine(j) == wk[j].tok # ""

\* C14: for every job that was started with a routine target &R and whose
\* status is running or paused, a lock record for &R exists in runner_locks
C14_ActiveJobHoldsLock ==
    \A j \in Workers :
        (OnRoutine(j) /\ jobs[j].status \in {"running", "paused"})
            => Locked(wk[j].tok)

\* C15: once the worker of a job started on &R has exited (after done, failed
\* or stopped) and no other job on &R has a worker that has not exited,
\* runner_locks holds no record for &R
C15_LockReleasedOnExit ==
    \A j \in Workers :
        (/\ OnRoutine(j) /\ Exited(j)
         /\ ~(\E k \in Workers : k # j /\ wk[k].tok = wk[j].tok /\ ~Exited(k)))
            => ~Locked(wk[j].tok)

\* a job on &r whose step failed has exited through the exception path and
\* the record for &r is gone
C15_Witness ==
    \E j \in Workers :
        /\ OnRoutine(j) /\ Exited(j)
        /\ wk[j].val = 2 /\ jobs[j].status = "failed"
        /\ ~Locked(wk[j].tok)

\* C16: a run %name [target] that returns an error acquires no routine lock,
\* starts no worker and leaves the runner table as it was (a previous job
\* record of that name keeps its status, step index, last error and trigger)
C16_FailedRunChangesNothing ==
    [][\A name \in RunnerNames, rest \in RunTargets :
          (Run(name, rest) /\ ret'.out.err)
             => /\ runner_locks' = runner_locks
                /\ \A j \in DOMAIN wk' : j \notin DOMAIN wk => wk'[j].pc = "none"
                /\ runners' = runners
                /\ jobs' = jobs]_vars

\* the poller passes a bound command to execute in this step
PollerExecutes == \E id \in DOMAIN hist.fired : Invoked(id)

\* C17: two different threads are never inside the body of execute at once: a
\* worker or the poller executes a line only when the calling thread is not
\* inside a handler, and the gate is held exactly while the calling thread is
C17_OneThreadInExecute ==
    [][/\ ((\E j \in Workers : StepBegins(j)) \/ PollerExecutes)
             => (exec_lock = "none" /\ repl.pc = "idle")
       /\ (exec_lock' = "repl") <=> (repl'.pc # "idle")
       /\ exec_lock' \in {"none", "repl"}]_vars

\* the calling thread is inside the handler of pause and a worker is about to
\* pass a step to execute: it has to wait for the gate
C17_Witness ==
    /\ repl.pc = "pause_set" /\ exec_lock = "repl"
    /\ \E j \in Workers :
          /\ wk[j].pc = "step"
          /\ StepAt(j) # <<>> /\ ~IsRunnerControl(StepAt(j))

\* a step in which the acting thread of the process holds the dispatch gate:
\* the calling thread inside execute, a worker or the poller inside the
\* execute of a step or of a bound command
GateHeldStep ==
    \/ \E raw \in StoreLines \cup EventLines : Execute(raw)
    \/ \E name \in RunnerNames, rest \in RunTargets : Run(name, rest)
    \/ PauseSet \/ PauseClear \/ StopSet
    \/ \E j \in Workers : StepBegins(j)
    \/ PollerExecutes

\* a call from outside the process's own threads
OutsideCall ==
    \E sym \in OnSymbols, n \in OnValues, cmd \in Cmds :
        DispatchInternal(<<W("sys.ev.on"), sym, Num(n)>> \o cmd)

\* C18: every write to the runner table, the routine lock table, the binding
\* list and the latch table by a thread of the process is made by a thread
\* that holds the dispatch gate at that moment
C18_TablesWrittenUnderGate ==
    [][(/\ \/ runners' # runners
           \/ runner_locks' # runner_locks
           \/ events' # events
           \/ event_latch' # event_latch
        /\ ~OutsideCall)
          => GateHeldStep]_vars

\* C19: while the worker of a job is inside a pulse it does not hold the
\* dispatch gate: unless the calling thread itself is inside a handler, the
\* gate is free for the calling thread and for the poller
C19_NoGateDuringPulse ==
    \A j \in Workers :
        wk[j].pc = "sleep" =>
            /\ exec_lock # "worker"
            /\ repl.pc = "idle" => (CanEnter("repl") /\ CanEnter("poller"))

\* a pulse is on and, since it began, the poller has executed a command bound
\* to it through execute
C19_Witness ==
    \E j \in Workers :
        /\ wk[j].pc = "sleep"
        /\ \E w \in hist.watch[j] : hist.fired[w.id] = w.n + 1

\* the head token t is "help" or a key of the alias table
HeadExposed(t) == t = W("help") \/ (IsWord(t) /\ t.body[1] \in DOMAIN ALIASES)

Unknown == Plain("Unknown command")

\* the stores, the runner table, the lock table and the binding list are left
\* as they are in this step
TablesUntouched == UNCHANGED <<routines, texts, tables, runners, jobs, runner_locks, events>>

\* C20: a line whose head is neither help nor an alias (sys.mk included) gets
\* the literal "Unknown command" from execute and changes neither the stores
\* nor the runner table, the lock table or the binding list, whether it comes
\* from the calling thread, a single-shot run, a runner step or a bound command
C20_GateRejectsUnknownHead ==
    [][/\ \A raw \in {LineInternal, SingleShot(LineInternal)} :
             Execute(raw) => (execute(raw).out = Unknown /\ TablesUntouched)
       /\ \A j \in Workers :
             (StepBegins(j) /\ ~HeadExposed(StepAt(j)[1]))
                => (execute(StepAt(j)).out = Unknown /\ TablesUntouched)
       /\ (PollerExecutes /\ ~HeadExposed(poll.matches[1].command[1]))
             => (execute(poll.matches[1].command).out = Unknown /\ TablesUntouched)
      ]_vars

\* the calling thread has got "Unknown command", a job has passed the line
\* sys.mk &r to execute as its step, and the poller has executed a binding
\* whose command is that line; no routine exists
C20_Witness ==
    /\ ret.out = Unknown /\ ret.via = "execute"
    /\ \E j \in Workers : \E k \in 1 .. Len(hist.executed[j]) :
          hist.executed[j][k].step = LineInternal
    /\ \E k \in 1 .. Len(events) :
          events[k].command = LineInternal /\ hist.fired[events[k].id] >= 1
    /\ routines = <<>>

\* the line passes the gate and fails in expansion, or its handler raises
FailsInside(raw) ==
    /\ raw # <<>>
    /\ Gate(raw[1])
    /\ LET x == _expand(raw)
       IN x.err # "" \/ IsRaised(dispatch_internal(x.parts).out)

\* C21: execute never raises to its caller, whatever the line: a failure in
\* expansion or in a handler (a wrong number of arguments included) comes back
\* as a string that begins with "Error: ", and that string is the last entry
\* the call appends to the log
C21_ExecuteNeverRaises ==
    [][\A raw \in ExecLines :
          Execute(raw)
             => /\ ~IsRaised(ret'.out)
                /\ FailsInside(raw)
                      => /\ ret'.out.err
                         /\ LogOf(raw)[Len(LogOf(raw))] = [out |-> ret'.out]]_vars

\* a handler called with a wrong number of arguments has returned
C21_Witness == ret.via = "execute" /\ ret.out = Err("TypeError")

\* C22: a cp or mv that returns an error leaves the texts, routines and tables
\* stores exactly as they were before the command
C22_FailedCopyMoveChangesNothing ==
    [][\A raw \in CpLines \cup MvLines :
          (ret'.out.err /\ Execute(raw))
             => UNCHANGED <<texts, routines, tables>>]_vars

\* C23: whatever the token sequence and the expanders, the expansion loop
\* processes at most expand_max_passes sequences, none of them twice, can
\* always go on until it ends, and ends by returning a sequence that no
\* expander changes or by raising an error
C23_ExpansionEnds ==
    /\ Len(xp.done) <= xp.max
    /\ \A i, j \in 1 .. Len(xp.done) : xp.done[i] = xp.done[j] => i = j
    /\ xp.pc = "loop" => (xp.pass = Len(xp.done) /\ ENABLED NextExpand)
    /\ xp.pc = "returned" => Changing(xp.exps, xp.parts) = {}
    /\ xp.pc = "raised"
          => xp.out \in {"Expansion loop detected", "Expansion depth exceeded"}

\* a run over a rewrite cycle has ended
C23_Witness ==
    /\ xp.pc = "raised"
    /\ Len(xp.done) >= 2
    /\ xp.parts = xp.done[1]

\* the alias cycle x -> y, y -> x
AliasCycle == [p \in ExpLines |-> IF p = "x" THEN "y" ELSE IF p = "y" THEN "x" ELSE p]

\* C24: with the alias cycle x -> y, y -> x and expand_max_passes = 3 the
\* expansion of x ends with "Expansion loop detected"; in general a run in
\* which a token sequence comes back ends with that error, not with the pass
\* bound
C24_CycleReportedAsLoop ==
    /\ (xp.exps = <<AliasCycle>> /\ xp.max = 3 /\ xp.done # <<>> /\ xp.done[1] = "x"
           /\ xp.pc \in {"returned", "raised"})
          => (xp.pc = "raised" /\ xp.out = "Expansion loop detected")
    /\ (xp.pc = "raised" /\ xp.parts \in xp.seen)
          => xp.out = "Expansion loop detected"

(***************************************************************************)
(* C25: a token #a:b:...:leaf.trg expands to the decimal string of the     *)
(* integer held in that tree leaf, and to "0" only when the path is        *)
(* absent, names an interior node, or its leaf is empty or no integer.     *)
(***************************************************************************)
\* int(str(v).strip()) of a scalar, 0 when it is no integer
IntOfScalar(v) ==
    IF \E n \in IntRange : v = <<<<W(IntStr(n))>>>>
    THEN CHOOSE n \in IntRange : v = <<<<W(IntStr(n))>>>>
    ELSE 0

LeafIntAt(t, p) == IF IsLeafAt(t, p) THEN IntOfScalar(t[p].v) ELSE 0

C25_TableTrgExpandsToLeaf ==
    [][\A sym \in TableSymbols :
          Resolve(sym) =>
             ret'.parts = <<W(IntStr(LeafIntAt(tables, _parse_hash(sym).path)))>>]_vars

(***************************************************************************)
(* C26: resolving a trigger symbol through the expansion loop gives, for   *)
(* %name.trg, the current trg of the runner registered under name (0 when  *)
(* there is none), and for $sub:key.trg the integer value of that text     *)
(* leaf (0 when the sub or the key is missing, or the leaf is empty or no  *)
(* integer).                                                               *)
(***************************************************************************)
RunnerInt(sym) ==
    IF Len(sym.body) = 1 /\ sym.body[1] \in DOMAIN runners
    THEN jobs[runners[sym.body[1]]].trg ELSE 0

TextInt(sym) ==
    LET sub == sym.body[1]
        key == Join(Tail(sym.body)) \o ".trg"
    IN IF sub \in DOMAIN texts /\ key \in DOMAIN texts[sub]
       THEN IntOfScalar(texts[sub][key]) ELSE 0

C26_TriggerResolves ==
    [][(ret' # ret /\ ret'.via = "_resolve_trg_int"
           /\ ret'.sym \in RunnerSymbols \cup TextSymbols)
          => ret'.val = IF ret'.sym.pfx = "%" THEN RunnerInt(ret'.sym)
                        ELSE TextInt(ret'.sym)]_vars

\* a text leaf holding 2 was resolved to 2 while a runner was pulsing
C26_Witness ==
    /\ ret.via = "_resolve_trg_int"
    /\ ret.sym = DollarTrg(<<"s", "x">>)
    /\ ret.val = 2
    /\ "s" \in DOMAIN texts /\ "x.trg" \in DOMAIN texts["s"]
    /\ texts["s"]["x.trg"] = <<<<Num(2)>>>>
    /\ RunnerInt(PctTrg("a")) # 0

(***************************************************************************)
(* C27: for every successful cp between two scalar targets ($sub:key and   *)
(* #leaf, in any combination), cat of the destination after the copy is    *)
(* cat of the source before it.                                            *)
(***************************************************************************)
ScalarTargets == {Hash(<<"a">>), Hash(<<"b">>), Hash(<<"a", "b">>),
                  Dollar(<<"s", "k">>), Dollar(<<"t", "k">>)}

\* the target holds a scalar: cat returns its value
HoldsScalar(x) ==
    IF x.pfx = "#" THEN IsLeafAt(tables, _parse_hash(x).path)
    ELSE ~cat(<<x>>).out.err

C27_ScalarCopyPreservesValue ==
    [][\A src \in ScalarTargets, dst \in ScalarTargets :
          (/\ ret'.out = Ok
           /\ HoldsScalar(src)
           /\ (cat(<<dst>>).out)' # cat(<<src>>).out)
             => ~Execute(<<W("cp"), src, dst>>)]_vars

\* a tree leaf was copied to $t:k, which only a copy writes
C27_Witness ==
    /\ ret = Returned("execute", <<>>, Ok)
    /\ IsLeafAt(tables, <<"a">>) /\ tables[<<"a">>].v = <<<<W("v")>>>>
    /\ DOMAIN texts = {"t"} /\ DOMAIN texts["t"] = {"k"}
    /\ texts["t"]["k"] = <<<<W("v")>>>>

(***************************************************************************)
(* C28: after a successful cp #r #r2, for every leaf path p under #r       *)
(* before the copy, cat #r2:p is what cat #r:p was, and #r2 has no other   *)
(* leaves.                                                                 *)
(***************************************************************************)
HashPaths == {<<"a">>, <<"b">>, <<"a", "b">>}

\* the paths, relative to p, of the leaves at and under p
LeavesUnder(t, p) == {q \in DOMAIN Subtree(t, p) : Subtree(t, p)[q].kind = "leaf"}

CloneOf(r, r2) ==
    /\ LeavesUnder(tables, r2)' = LeavesUnder(tables, r)
    /\ \A q \in LeavesUnder(tables, r) :
          (cat(<<Hash(r2 \o q)>>).out)' = cat(<<Hash(r \o q)>>).out

C28_TreeCopyIsClone ==
    [][\A r \in HashPaths, r2 \in HashPaths :
          (ret'.out = Ok /\ ~CloneOf(r, r2))
             => ~Execute(<<W("cp"), Hash(r), Hash(r2)>>)]_vars

\* #a, which holds the leaf a:b, was copied to #b
C28_Witness ==
    /\ ret = Returned("execute", <<>>, Ok)
    /\ IsLeafAt(tables, <<"a", "b">>) /\ IsLeafAt(tables, <<"b", "b">>)
    /\ tables[<<"b", "b">>] = tables[<<"a", "b">>]
    /\ LeavesUnder(tables, <<"b">>) = {<<"b">>}

(***************************************************************************)
(* C29: mv src dst with src equal to dst returns the sentinel and leaves   *)
(* the three stores, the runner table, the lock table and the binding list *)
(* unchanged, whatever src is: existing, missing or malformed.             *)
(***************************************************************************)
Sentinel == Plain("Need coffee?")

\* execute on "mv x x" in the current state: the sentinel, every store as it is
SameOntoItself(x) ==
    LET e == execute(<<W("mv"), x, x>>)
    IN /\ e.out = Sentinel
       /\ e.texts = texts /\ e.routines = routines /\ e.tables = tables
       /\ e.events = events

C29_MoveOntoItself ==
    /\ [](\A x \in Targets \cup Malformed : SameOntoItself(x))
    /\ [][(hist'.calls > hist.calls /\ ret'.out = Sentinel)
             => UNCHANGED <<texts, routines, tables, runners, runner_locks, events>>]_vars

\* the sentinel came back on a core whose stores hold something to move
C29_Witness ==
    /\ ret = Returned("execute", <<>>, Sentinel)
    /\ "r" \in DOMAIN routines /\ routines["r"] # <<>>
    /\ "s" \in DOMAIN texts

(***************************************************************************)
(* C30: mk #p, add.item #p and any cp with destination #p return an error  *)
(* and leave the tree unchanged when p names an existing interior node     *)
(* that a leaf would replace, or when p passes through an existing leaf.   *)
(***************************************************************************)
\* a node strictly above p is a leaf
ThroughLeaf(p) == \E k \in 1 .. Len(p) - 1 : IsLeafAt(tables, SubSeq(p, 1, k))

\* the source of a cp is one scalar: a text key, a tree leaf, a step
ScalarSource(x) ==
    IF x.pfx = "&"
    THEN AmpIdx(x).err = "" /\ AmpIdx(x).idx >= 0 /\ AmpIdx(x).name \in DOMAIN routines
            /\ AmpIdx(x).idx < Len(routines[AmpIdx(x).name])
    ELSE x \in ScalarTargets /\ HoldsScalar(x)

\* the line writes a leaf at its # target
WritesLeaf(raw) ==
    \/ raw[1] = W("add.item")
    \/ raw[1] = W("cp") /\ ScalarSource(raw[2])

TreeTargetOf(raw) == IF raw[1] = W("cp") THEN raw[3] ELSE raw[2]

TreeCollision(raw) ==
    LET p == _parse_hash(TreeTargetOf(raw)).path
    IN \/ ThroughLeaf(p)
       \/ WritesLeaf(raw) /\ p # <<>> /\ IsDictAt(tables, p)

TreeLines ==
    {raw \in SetupLines \cup CpLines :
        raw[1] \in {W("mk"), W("add.item"), W("cp")} /\ TreeTargetOf(raw).pfx = "#"}

C30_CollisionIsRefused ==
    [][\A raw \in TreeLines :
          (TreeCollision(raw) /\ ~(ret'.out.err /\ tables' = tables))
             => ~Execute(raw)]_vars

(***************************************************************************)
(* C31: in every state reachable through surface commands, every value     *)
(* under texts[sub][key] and every routine step is a textual scalar, never *)
(* a mapping or a list; cp #p $sub succeeds only when #p is an interior    *)
(* node all of whose children are leaves.                                  *)
(***************************************************************************)
IsText(v) == \A i \in 1 .. Len(v) : \A j \in 1 .. Len(v[i]) : v[i][j].pfx # "{}"

AllScalars ==
    /\ \A sub \in DOMAIN texts : \A key \in DOMAIN texts[sub] : IsText(texts[sub][key])
    /\ \A name \in DOMAIN routines :
          \A i \in 1 .. Len(routines[name]) : IsText(<<routines[name][i]>>)

FlatDict(p) ==
    /\ IsDictAt(tables, p)
    /\ \A x \in Children(tables, p) : IsLeafAt(tables, x)

C31_StoresHoldScalars ==
    /\ []AllScalars
    /\ [][\A p \in HashPaths :
             (ret'.out = Ok /\ ~FlatDict(p))
                => ~Execute(<<W("cp"), Hash(p), Dollar(<<"s">>)>>)]_vars

\* a flat node was copied into a sub beside a nested one that stays refused
C31_Witness ==
    /\ ret = Returned("execute", <<>>, Ok)
    /\ IsLeafAt(tables, <<"a", "b">>) /\ IsLeafAt(tables, <<"b", "b">>)
    /\ "s" \in DOMAIN texts /\ "b" \in DOMAIN texts["s"]
    /\ texts["s"]["b"] = tables[<<"a", "b">>].v

(***************************************************************************)
(* C32: an ON whose value is 0, 3 or no integer, whose symbol does not end *)
(* in .trg, whose command is empty, or whose command is run, status, pause *)
(* or stop followed by a % argument returns an error, leaves the binding   *)
(* list and the latch table unchanged and does not start the poller.       *)
(***************************************************************************)
OnRefused ==
    /\ ret'.out.err
    /\ UNCHANGED <<events, event_latch, event_thread>>

C32_BadOnIsRefused ==
    [][\A raw \in BadOnLines :
          (Execute(raw) \/ DispatchInternal(<<W("sys.ev.on")>> \o Tail(raw)))
             => OnRefused]_vars

\* a runner-control command was refused on a core that holds bindings and
\* latch entries
C32_Witness ==
    /\ ret.out = Err("Events cannot control runners (%)")
    /\ Len(events) = 2 /\ DOMAIN event_latch # {}

(***************************************************************************)
(* C33: no command executed on behalf of a runner worker starts, pauses,   *)
(* stops or queries a runner, for every step, steps that wrap the control  *)
(* command in single-shot run prefixes included; a step "run %a" makes the *)
(* job fail with a last_error that mentions runner-control.                *)
(***************************************************************************)
RECURSIVE ReachesControl(_)
\* the handler Core.execute ends in for a line is run %name, status, pause
\* or stop
ReachesControl(raw) ==
    IF raw = <<>> \/ ~Gate(raw[1]) \/ _expand(raw).err # "" THEN FALSE
    ELSE IF IsSingleShot(_expand(raw).parts)
    THEN ReachesControl(Tail(_expand(raw).parts))
    ELSE \/ CmdName(_expand(raw).parts) \in {"sys.status", "sys.pause", "sys.stop"}
         \/ CmdName(_expand(raw).parts) = "sys.run" /\ Len(raw) >= 2

C33_NoControlFromWorker ==
    [][\A j \in Workers :
          /\ StepBegins(j) => ~ReachesControl(StepAt(j))
          /\ (wk[j].pc = "step" /\ wk'[j].pc # "step" /\ StepAt(j) = StepCtl)
                => (wk'[j].pc = "fail"
                    /\ wk'[j].err = "Runner cannot execute runner-control commands")]_vars

(***************************************************************************)
(* C35: when the result of a step begins with "Error:" or the step raises, *)
(* the status becomes failed, last_error records the message, the terminal *)
(* pulse is 2 and no later step of the snapshot is executed; a step with   *)
(* any other result ("Unknown command" included) counts as success and the *)
(* job goes on.                                                            *)
(***************************************************************************)
C35_ErrorStepFailsJob ==
    [][\A j \in Workers :
          /\ (StepBegins(j) /\ execute(StepAt(j)).out.err)
                => (wk'[j].pc = "fail" /\ wk'[j].err = execute(StepAt(j)).out.text)
          /\ (StepBegins(j) /\ ~execute(StepAt(j)).out.err)
                => (wk'[j].pc = "loop" /\ wk'[j].i = wk[j].i + 1
                    /\ jobs'[j].status = jobs[j].status)
          /\ (wk[j].pc = "fail" /\ wk'[j].pc # "fail")
                => (jobs'[j].status = "failed" /\ jobs'[j].last_error = wk[j].err
                    /\ wk'[j].pc = "pulse" /\ wk'[j].val = 2)
          /\ jobs[j].status = "failed"
                => (~StepBegins(j) /\ jobs'[j].status = "failed"
                    /\ jobs'[j].last_error = jobs[j].last_error
                    /\ (jobs'[j].trg # jobs[j].trg => jobs'[j].trg \in {0, 2}))]_vars

\* the first step returned "Unknown command", the second an error: the job
\* failed on the second and its pulse of 2 is on
C35_Witness ==
    \E j \in Workers :
       /\ hist.snap[j] = <<StepUnknown, StepErr>>
       /\ Len(hist.executed[j]) = 2
       /\ jobs[j].status = "failed" /\ jobs[j].last_error = "Sub not found"
       /\ jobs[j].trg = 2

(***************************************************************************)
(* C34: no command executed by the event poller starts, pauses, stops or   *)
(* queries a runner, for every command ON accepts, commands that wrap the  *)
(* control command in single-shot run prefixes included.                   *)
(***************************************************************************)
C34_NoControlFromPoller ==
    [][PollerExecutes => ~ReachesControl(poll.matches[1].command)]_vars

(***************************************************************************)
(* C36: when the poller fires on an armed symbol S with value N it invokes *)
(* exactly the bindings with symbol S and value N, in registration order;  *)
(* the bindings that do not match stay as they are.                        *)
(***************************************************************************)
\* the list the poller took at the scan: every binding of (S, N), no other,
\* ordered as registered
TakenForFire ==
    LET m == poll'.matches
        sym == poll.symbols[poll.idx]
    IN /\ \A k \in 1 .. Len(m) :
             /\ \E x \in 1 .. Len(events) : events[x] = m[k]
             /\ m[k].symbol = sym /\ m[k].value = poll'.val
       /\ \A x \in 1 .. Len(events) :
             (events[x].symbol = sym /\ events[x].value = poll'.val)
                => \E k \in 1 .. Len(m) : m[k] = events[x]
       /\ \A k1, k2 \in 1 .. Len(m) : k1 < k2 => m[k1].id < m[k2].id

C36_WitnessOther ==
    /\ poll.pc = "scan" /\ poll.val = 2 /\ poll.idx = 2
    /\ Len(events) = 2 /\ events[1].value = 1 /\ events[2].value = 2
    /\ hist.fired = <<0, 1>>

(***************************************************************************)
(* C37: ON.reset <pattern> removes exactly the bindings whose symbol is    *)
(* the pattern (every binding for "*.trg") and the latch entries of their  *)
(* symbols; the other bindings keep their order, the other latch entries   *)
(* are untouched, and a poller that was started keeps running, on an empty *)
(* watch list when no binding is left.                                     *)
(***************************************************************************)
ResetHits(e, pat) == IF pat = StarTrg THEN TRUE ELSE e.symbol = pat

ResetDone(pat) ==
    LET gone == {events[k].symbol : k \in {x \in 1 .. Len(events) : ResetHits(events[x], pat)}}
    IN /\ events' = SelectSeq(events, LAMBDA e : ~ResetHits(e, pat))
       /\ DOMAIN event_latch' = (DOMAIN event_latch) \ gone
       /\ \A sym \in DOMAIN event_latch' : event_latch'[sym] = event_latch[sym]
       /\ event_thread' = event_thread
       /\ ret'.out = Ok

C37_ResetRemovesMatching ==
    /\ [][\A raw \in ResetLines : Execute(raw) => ResetDone(raw[2])]_vars
    /\ [][(event_thread /\ poll.pc = "tick" /\ poll' # poll /\ events = <<>>)
             => (poll'.pc = "scan" /\ poll'.symbols = <<>>)]_vars
    /\ [](event_thread => [](event_thread))

\* three bindings were made, the poller has a latch entry for x.trg and for
\* y.trg, and the reset of x.trg left the binding and the latch of y.trg
C37_Witness ==
    /\ hist.onCount = 3 /\ hist.calls = 4
    /\ Len(events) = 1 /\ events[1].symbol = YTrg
    /\ DOMAIN event_latch = {YTrg}
    /\ event_thread

(***************************************************************************)
(* C38: a binding appended by a successful ON stays in the list until an   *)
(* ON.reset that matches it or a purge (value 3) of its own symbol; a      *)
(* purge of another symbol that runs concurrently with the ON never drops  *)
(* it.                                                                     *)
(***************************************************************************)
\* the ids of the bindings in a list
IdsOf(evs) == {evs[k].id : k \in 1 .. Len(evs)}

C38_BindingStaysUntilRemoved ==
    [][\A k \in 1 .. Len(events) :
          events[k].id \notin IdsOf(events')
             => /\ poll.pc = "purge"
                /\ poll.symbols[poll.idx] = events[k].symbol]_vars

(***************************************************************************)
(* C39: the latch is per symbol, not per value: observing a non-zero value *)
(* M on an armed symbol S disarms S even when no binding has value M, so a *)
(* later change from M to N with no 0 observed in between does not fire    *)
(* the bindings (S, N).                                                    *)
(***************************************************************************)
ArmedAt(latches, sym) == sym \notin DOMAIN latches \/ latches[sym].armed

\* the poller looks at the symbol at poll.idx in this step
Observes == poll.pc = "scan" /\ poll.idx <= Len(poll.symbols) /\ poll' # poll

C39_LatchIsPerSymbol ==
    [][/\ (Observes /\ poll'.val \notin {0, 3})
             => /\ ~ArmedAt(event_latch', poll.symbols[poll.idx])
                /\ poll'.pc = "fire" <=> ArmedAt(event_latch, poll.symbols[poll.idx])
       /\ (poll.pc # "fire" /\ poll'.pc = "fire") => Observes
       /\ \A sym \in DOMAIN event_latch :
             (~ArmedAt(event_latch, sym) /\ ArmedAt(event_latch', sym))
                => (Observes /\ poll.symbols[poll.idx] = sym /\ poll'.val = 0)
       /\ hist'.fired # hist.fired /\ Len(hist'.fired) = Len(hist.fired)
             => poll.pc = "fire"]_vars

\* one binding (%a.trg, 1); the first job failed and its pulse of 2 was
\* observed, the second job is in its pulse of 1 and the poller has looked at
\* it: the binding was not invoked
C39_Witness ==
    /\ Len(events) = 1 /\ events[1].value = 1 /\ hist.onCount = 1
    /\ Len(jobs) = 2 /\ jobs[1].status = "failed" /\ jobs[2].trg = 1
    /\ poll.pc = "scan" /\ poll.idx = 2 /\ poll.val = 1
    /\ ~ArmedAt(event_latch, PctTrg("a"))
    /\ hist.fired = <<0>>

(***************************************************************************)
(* C40: no deadlock: in every reachable state with a pending call of       *)
(* execute some thread can take a step; a nested call on the thread that   *)
(* holds the lock (single-shot run re-entering execute) goes on without    *)
(* waiting; under fair scheduling every call of execute returns.           *)
(***************************************************************************)
\* a thread is inside execute or at its door
PendingCall ==
    \/ repl.pc # "idle"
    \/ \E j \in Workers : wk[j].pc = "step"
    \/ poll.pc = "fire"

InsideStep ==
    GNest \/ GReturnTaken \/ GUnwind \/ (\E j \in Workers : WStepTaken(j)) \/ PFireTaken

C40_CanStep ==
    /\ PendingCall => ENABLED InsideStep
    /\ repl.pc # "idle" => ENABLED (GNest \/ GReturnTaken \/ GUnwind)

C40_Returns ==
    /\ (repl.pc # "idle") ~> (repl.pc = "idle")
    /\ \A j \in 1 .. MaxJobs :
          (j \in Workers /\ wk[j].pc = "step") ~> (j \in Workers /\ wk[j].pc # "step")
    /\ (poll.pc = "fire") ~> (poll.pc # "fire")

C40_NoDeadlock == []C40_CanStep /\ C40_Returns

\* the calling thread is three frames deep in execute and holds the lock
\* while the worker waits at the door with its step
C40_Witness ==
    /\ repl.pc = "handler" /\ repl.job = 3 /\ exec_lock = "repl"
    /\ \E j \in Workers : wk[j].pc = "step" /\ StepAt(j) # <<>>

\* the same with the poller at the door with a binding to invoke
C40_WitnessPoller ==
    /\ repl.pc = "return" /\ repl.job = 2 /\ exec_lock = "repl"
    /\ poll.pc = "fire" /\ poll.matches # <<>>

====
